---- MODULE Spec2Model ----
(***************************************************************************)
(* ZenFolio: the content pipeline of the static-site generator.            *)
(*                                                                         *)
(*   parsers/base_parser.py   ParserRegistry, ContentParser                *)
(*   parsers/*_parser.py      MarkdownParser, JupyterParser, BibtexParser  *)
(*   content.py               Content.load and its four _safe_parse_*      *)
(*   themes/*.py              BaseTheme / TailwindTheme render_component   *)
(*   zenfolio.py              ZenFolio._process_items and the build passes *)
(*                                                                         *)
(* Python values are modelled as follows: a dict is a record (a function   *)
(* on its keys), a list is a sequence, None is the string "None", and a    *)
(* call that raises has the outcome "Raise".                               *)
(***************************************************************************)
EXTENDS Integers, Sequences, FiniteSets, TLC

VARIABLES
    parsers,          \* ParserRegistry._parsers
    extension_map,    \* ParserRegistry._extension_map
    last_call,        \* the last call observed and what it returned
    index_md,         \* <content_dir>/index.md
    has_author,       \* hasattr(config, 'author')
    bib_file,         \* the bibliography file config.publications.bib_path names
    blog_dir,         \* <content_dir>/blog, in iterdir() order
    pages_dir,        \* <content_dir>/pages, in iterdir() order
    bio,              \* Content.bio
    publications,     \* Content.publications
    blog_posts,       \* Content.blog_posts
    pages,            \* Content.pages
    load_outcome,     \* "none" before Content.load() is called, then how it ended
    theme,            \* config.theme: the theme _load_theme built
    stage,            \* where ZenFolio.build() is, "raised" once an exception left it
    pass_log,         \* one entry per _process_items pass of the build
    call_args,        \* the arguments of the function call about to be made
    env,              \* what build_site runs on: config.py, the output directory, the
                      \* interpreter, and the base URL it gives build()
    config,           \* ZenFolio.config
    source,           \* the records Content.load() gives for the content directory
    written,          \* the pages in the output directory, by file name
    seo_pages,        \* ZenFolio.seo_pages
    outputs,          \* the output directory as each finished build() left it
    build_result,     \* what build_site returned, "none" before it returns
    exc,              \* the class of the exception that ended build(), "None" if none
    globals,          \* theme.env.globals, the entries render_page sets
    built_pages       \* ZenFolio.built_pages, <<>> while the attribute is not set

registry_vars == <<parsers, extension_map, last_call>>
content_dir_vars == <<index_md, has_author, bib_file, blog_dir, pages_dir>>
content_vars == <<bio, publications, blog_posts, pages, load_outcome>>
site_vars ==
    <<call_args, env, config, source, written, seo_pages, outputs, build_result, exc, globals,
      built_pages>>
build_vars == <<theme, stage, pass_log, site_vars>>
vars == <<registry_vars, content_dir_vars, content_vars, build_vars>>

NoParser == "None"
Raise == "Raise"

-----------------------------------------------------------------------------
(* Sequence helpers *)

Range(s) == {s[i] : i \in 1..Len(s)}

RECURSIVE SeqsUpTo(_, _)
SeqsUpTo(S, n) ==
    IF n = 0 THEN {<<>>}
    ELSE LET shorter == SeqsUpTo(S, n - 1)
         IN shorter \cup {Append(s, x) : s \in {t \in shorter : Len(t) = n - 1}, x \in S}

IndexOf(s, x) == CHOOSE i \in 1..Len(s) : s[i] = x /\ \A j \in 1..(i - 1) : s[j] # x

RECURSIVE SelectIdx(_, _, _)
\* the subsequence of s at the indices in keep
SelectIdx(s, keep, i) ==
    IF i > Len(s) THEN <<>>
    ELSE IF i \in keep THEN <<s[i]>> \o SelectIdx(s, keep, i + 1)
         ELSE SelectIdx(s, keep, i + 1)

-----------------------------------------------------------------------------
(* The parsers.  SniffParser stands for a plugin written against the       *)
(* ContentParser interface that recognises a file by its content.          *)

ParserPool == {"MarkdownParser", "JupyterParser", "BibtexParser", "SniffParser"}

DefaultParsers == <<"MarkdownParser", "JupyterParser", "BibtexParser">>

supported_extensions(p) ==
    CASE p = "MarkdownParser" -> {".md", ".markdown", ".mdown", ".mkd"}
      [] p = "JupyterParser"  -> {".ipynb"}
      [] p = "BibtexParser"   -> {".bib", ".bibtex"}
      [] p = "SniffParser"    -> {".ipynb", ".nb"}

content_types(p) ==
    CASE p = "MarkdownParser" -> {"blog_post", "page", "bio"}
      [] p = "JupyterParser"  -> {"blog_post", "page", "notebook"}
      [] p = "BibtexParser"   -> {"publication"}
      [] p = "SniffParser"    -> {"page"}

\* str.lower() on the suffixes the model uses
lower(suffix) ==
    CASE suffix = ".MD"    -> ".md"
      [] suffix = ".IPYNB" -> ".ipynb"
      [] OTHER             -> suffix

\* can_parse: "yes", "no", or Raise.  JupyterParser opens the file and loads
\* it as JSON; it catches JSONDecodeError, UnicodeDecodeError and KeyError only.
can_parse(p, f) ==
    CASE p = "MarkdownParser" ->
            IF lower(f.suffix) \in supported_extensions(p) THEN "yes" ELSE "no"
      [] p = "JupyterParser"  ->
            IF lower(f.suffix) # ".ipynb" THEN "no"
            ELSE IF f.body = "unreadable" THEN Raise
            ELSE IF f.body = "notebook" THEN "yes" ELSE "no"
      [] p = "BibtexParser"   ->
            IF lower(f.suffix) \in supported_extensions(p) THEN "yes" ELSE "no"
      [] p = "SniffParser"    -> IF f.body = "notebook" THEN "yes" ELSE "no"

-----------------------------------------------------------------------------
(* ParserRegistry *)

EmptyMap == [e \in {} |-> <<>>]

\* register(parser) without the membership tests
RegisterOp_dup(ps, em, p) ==
    [parsers |-> Append(ps, p),
     extension_map |->
        [e \in DOMAIN em \cup supported_extensions(p) |->
            IF e \in supported_extensions(p)
            THEN Append(IF e \in DOMAIN em THEN em[e] ELSE <<>>, p)
            ELSE em[e]]]

\* register(parser): the registry after the call
RegisterOp(ps, em, p) ==
    IF p \in Range(ps) THEN [parsers |-> ps, extension_map |-> em]
    ELSE [parsers |-> Append(ps, p),
          extension_map |->
            [e \in DOMAIN em \cup supported_extensions(p) |->
                LET old == IF e \in DOMAIN em THEN em[e] ELSE <<>>
                IN IF e \in supported_extensions(p) /\ p \notin Range(old)
                   THEN Append(old, p)
                   ELSE old]]

RECURSIVE RegisterAll(_, _, _)
RegisterAll(ps, em, todo) ==
    IF todo = <<>> THEN [parsers |-> ps, extension_map |-> em]
    ELSE LET r == RegisterOp(ps, em, Head(todo))
         IN RegisterAll(r.parsers, r.extension_map, Tail(todo))

\* parsers/__init__.py registers the three default parsers at import
DefaultRegistry == RegisterAll(<<>>, EmptyMap, DefaultParsers)

RECURSIVE FirstCanParse(_, _)
\* "for parser in <list>: if parser.can_parse(file_path): return parser"
FirstCanParse(candidates, f) ==
    IF candidates = <<>> THEN NoParser
    ELSE LET r == can_parse(Head(candidates), f)
         IN IF r = Raise THEN Raise
            ELSE IF r = "yes" THEN Head(candidates)
            ELSE FirstCanParse(Tail(candidates), f)

\* get_parser_for_file without the fallback scan
get_parser_for_file_no_fallback(ps, em, f) ==
    LET extension == lower(f.suffix)
    IN IF extension \in DOMAIN em THEN FirstCanParse(em[extension], f) ELSE NoParser

get_parser_for_file(ps, em, f) ==
    LET extension == lower(f.suffix)
        first == IF extension \in DOMAIN em
                 THEN FirstCanParse(em[extension], f)
                 ELSE NoParser
    IN IF first # NoParser THEN first ELSE FirstCanParse(ps, f)

get_parsers_for_content_type(ps, t) ==
    SelectIdx(ps, {i \in 1..Len(ps) : t \in content_types(ps[i])}, 1)

-----------------------------------------------------------------------------
(* Files.  A file is a record: stem and suffix (its name), hidden (the     *)
(* name starts with '_' or '.'), body (what reading it gives), and what    *)
(* its frontmatter holds: slug ("None" when the key is absent, "INT" for a *)
(* YAML integer), date, and valid (the typed entity accepts the metadata). *)
(* Bodies: "text" (markdown with good frontmatter), "badfm" (frontmatter   *)
(* that does not parse), "notebook" (notebook JSON), "unreadable" (open()  *)
(* raises), "absent" (no such file).                                       *)

File(stem, suffix, body, slug, date, valid) ==
    [stem |-> stem, suffix |-> suffix, hidden |-> FALSE, body |-> body,
     slug |-> slug, date |-> date, valid |-> valid]

NoDir == [exists |-> FALSE, files |-> <<>>]
Dir(files) == [exists |-> TRUE, files |-> files]

Unparsed == [ok |-> FALSE]

\* the raw record {metadata, content} a parser returns for a file
RawRecord(p, f, slug, date) ==
    [ok |-> TRUE,
     metadata |-> [slug |-> slug, date |-> date, valid |-> f.valid],
     content |-> [by |-> p, of |-> <<f.stem, f.suffix>>]]

\* parse_file of the three single-record parsers: every exception is caught
\* and gives {} (Unparsed).  A notebook read as markdown has no frontmatter.
parse_file(p, f) ==
    CASE p = "MarkdownParser" ->
            IF f.body = "text" THEN RawRecord(p, f, f.slug, f.date)
            ELSE IF f.body = "notebook" THEN RawRecord(p, f, "None", 0)
            ELSE Unparsed
      [] p = "JupyterParser" ->
            IF f.body = "notebook" THEN RawRecord(p, f, f.slug, f.date) ELSE Unparsed
      [] p = "SniffParser" ->
            IF f.body = "notebook" THEN RawRecord(p, f, f.slug, f.date) ELSE Unparsed
      [] OTHER -> Unparsed

RECURSIVE InsertDesc(_, _, _)
\* i put into the index list `sorted` after every index whose key is >= keys[i]
InsertDesc(sorted, i, keys) ==
    IF sorted = <<>> THEN <<i>>
    ELSE IF keys[Head(sorted)] >= keys[i]
         THEN <<Head(sorted)>> \o InsertDesc(Tail(sorted), i, keys)
         ELSE <<i>> \o sorted

RECURSIVE SortedIndices(_, _)
SortedIndices(keys, n) ==
    IF n = 0 THEN <<>> ELSE InsertDesc(SortedIndices(keys, n - 1), n, keys)

\* list.sort(key=..., reverse=True): stable, descending; keys[i] is the key of s[i]
SortDesc(s, keys) ==
    LET perm == SortedIndices(keys, Len(s))
    IN [i \in 1..Len(s) |-> s[perm[i]]]

RECURSIVE ScanDirectory(_, _, _)
\* the loop of parse_directory: [raised, items]
ScanDirectory(p, files, items) ==
    IF files = <<>> THEN [raised |-> FALSE, items |-> items]
    ELSE LET f == Head(files)
             cp == can_parse(p, f)
         IN IF cp = Raise THEN [raised |-> TRUE, items |-> <<>>]
            ELSE IF cp = "no" \/ f.hidden THEN ScanDirectory(p, Tail(files), items)
            ELSE LET parsed == parse_file(p, f)
                 IN IF ~parsed.ok THEN ScanDirectory(p, Tail(files), items)
                    ELSE LET slug == IF parsed.metadata.slug = "None"
                                     THEN f.stem ELSE parsed.metadata.slug
                             item == [parsed EXCEPT !.metadata.slug = slug]
                         IN ScanDirectory(p, Tail(files), Append(items, item))

\* MarkdownParser.parse_directory / JupyterParser.parse_directory
parse_directory(p, dir) ==
    IF ~dir.exists THEN [raised |-> FALSE, items |-> <<>>]
    ELSE LET scan == ScanDirectory(p, dir.files, <<>>)
         IN IF scan.raised THEN scan
            ELSE [raised |-> FALSE, items |-> SortDesc(scan.items, [i \in 1..Len(scan.items) |-> scan.items[i].metadata.date])]

-----------------------------------------------------------------------------
(* Content._safe_parse_blog_posts *)

\* metadata.copy() plus content and content_type; the raw record has no
\* top-level content_type key, so raw_post.get('content_type', 'markdown')
\* is 'markdown' for every parser
Flatten(raw) ==
    [slug |-> raw.metadata.slug, date |-> raw.metadata.date,
     valid |-> raw.metadata.valid, content |-> raw.content,
     content_type |-> "markdown"]

RECURSIVE MergeParsers(_, _)
\* all_raw_posts: each blog parser's directory listing, a failing parser skipped
MergeParsers(blog_parsers, dir) ==
    IF blog_parsers = <<>> THEN <<>>
    ELSE LET r == parse_directory(Head(blog_parsers), dir)
             flat == IF r.raised THEN <<>>
                     ELSE [i \in 1..Len(r.items) |-> Flatten(r.items[i])]
         IN flat \o MergeParsers(Tail(blog_parsers), dir)

Truthy(slug) == slug \notin {"", "None"}

RECURSIVE DedupFrom(_, _, _)
DedupFrom(posts, seen_slugs, unique_posts) ==
    IF posts = <<>> THEN unique_posts
    ELSE LET post == Head(posts)
         IN IF Truthy(post.slug) /\ post.slug \notin seen_slugs
            THEN DedupFrom(Tail(posts), seen_slugs \cup {post.slug},
                           Append(unique_posts, post))
            ELSE DedupFrom(Tail(posts), seen_slugs, unique_posts)

\* the seen_slugs loop: the first post of each slug, in order
Dedup(posts) == DedupFrom(posts, {}, <<>>)

\* BlogPost(**raw_post, content_raw=raw_post.get('content', '')).to_dict()
BlogPostDict(post) ==
    [slug |-> post.slug, date |-> post.date, content |-> post.content,
     content_raw |-> post.content, content_type |-> post.content_type,
     template_name |-> "blog_post_item"]

\* the validation loop: an entry BlogPost rejects is skipped
Validate(unique_posts) ==
    LET kept == SelectIdx(unique_posts,
                          {i \in 1..Len(unique_posts) : unique_posts[i].valid}, 1)
    IN [i \in 1..Len(kept) |-> BlogPostDict(kept[i])]

SafeParseBlogPosts(ps, dir) ==
    IF ~dir.exists THEN <<>>
    ELSE Validate(Dedup(MergeParsers(get_parsers_for_content_type(ps, "blog_post"), dir)))

-----------------------------------------------------------------------------
(* BibtexParser.parse_file and Content._safe_parse_publications.  A        *)
(* bibliography entry is [key, has_title, year, highlight]; year is the    *)
(* text of the year field, "None" when the entry has none.                 *)

NoBib == [exists |-> FALSE, entries |-> <<>>]
Bib(entries) == [exists |-> TRUE, entries |-> entries]

\* int(text): the integer, or -1 where Python raises ValueError
IntOf(text) ==
    CASE text = "2019" -> 2019
      [] text = "2021" -> 2021
      [] text = "2023" -> 2023
      [] OTHER -> -1

\* _format_entry: "none" (no title or no year), "raise" (int() fails), or "pub"
FormatEntry(entry) ==
    IF ~entry.has_title \/ entry.year = "None" THEN [kind |-> "none"]
    ELSE IF IntOf(entry.year) = -1 THEN [kind |-> "raise"]
    ELSE [kind |-> "pub",
          pub |-> [key |-> entry.key, year |-> IntOf(entry.year),
                   highlight |-> entry.highlight]]

RECURSIVE FormatEntries(_, _)
FormatEntries(entries, pubs) ==
    IF entries = <<>> THEN [raised |-> FALSE, pubs |-> pubs]
    ELSE LET r == FormatEntry(Head(entries))
         IN IF r.kind = "raise" THEN [raised |-> TRUE, pubs |-> <<>>]
            ELSE IF r.kind = "none" THEN FormatEntries(Tail(entries), pubs)
            ELSE FormatEntries(Tail(entries), Append(pubs, r.pub))

BibtexParseFile(bib) ==
    LET r == FormatEntries(bib.entries, <<>>)
    IN IF r.raised THEN r
       ELSE [raised |-> FALSE,
             pubs |-> SortDesc(r.pubs, [i \in 1..Len(r.pubs) |-> r.pubs[i].year])]

SafeParsePublications(bib) ==
    IF ~bib.exists THEN <<>>
    ELSE LET r == BibtexParseFile(bib)
         IN IF r.raised THEN <<>> ELSE r.pubs

-----------------------------------------------------------------------------
(* Content._safe_parse_bio_data *)

AuthorInterests == <<"Research Area 1", "Research Area 2", "Research Area 3">>
AuthorTitle == "Your Title"
AuthorAffiliation == "Your Institution"

\* Bio().to_dict()
EmptyBio == [bio |-> "", tagline |-> "", interests |-> <<>>]

\* the dict built from config.author
ConfigBio ==
    [bio |-> "", interests |-> AuthorInterests, title |-> AuthorTitle,
     affiliation |-> AuthorAffiliation]

\* Bio(**bio_data).to_dict() for a parsed index.md
ParsedBio == [bio |-> "index.md", tagline |-> "", interests |-> AuthorInterests]

SafeParseBioData(ps, em, index, author) ==
    LET parser == get_parser_for_file(ps, em, index)
        raw == IF parser \in {NoParser, Raise} THEN Unparsed ELSE parse_file(parser, index)
    IN IF parser = Raise THEN EmptyBio
       ELSE IF raw.ok
            THEN IF ~author THEN EmptyBio          \* config.author: AttributeError
                 ELSE IF raw.metadata.valid THEN ParsedBio
                 ELSE EmptyBio                       \* Bio(**bio_data) raises
       ELSE IF author THEN ConfigBio
       ELSE EmptyBio

-----------------------------------------------------------------------------
(* Content._safe_parse_pages *)

\* Page(**raw_page_data).to_dict(); Page.slug defaults to ""
PageDict(raw, f) ==
    [title |-> [title_cased |-> IF raw.metadata.slug = "None" THEN f.stem
                                ELSE raw.metadata.slug],
     slug |-> IF raw.metadata.slug = "None" THEN "" ELSE raw.metadata.slug,
     content |-> raw.content,
     template_name |-> "page"]

RECURSIVE PagesLoop(_, _, _, _)
PagesLoop(ps, em, files, parsed_pages) ==
    IF files = <<>> THEN [raised |-> FALSE, pages |-> parsed_pages]
    ELSE LET f == Head(files)
             parser == get_parser_for_file(ps, em, f)
             raw == IF parser \in {NoParser, Raise} THEN Unparsed ELSE parse_file(parser, f)
             go_on == PagesLoop(ps, em, Tail(files), parsed_pages)
             raises == [raised |-> TRUE, pages |-> <<>>]
         IN IF f.hidden THEN go_on
            ELSE IF parser = Raise THEN raises
            ELSE IF parser = NoParser THEN go_on
            ELSE IF parser = "BibtexParser"
                 \* parse_file gives a list: [] is skipped, on any other list
                 \* raw_page_data.setdefault raises AttributeError
                 THEN IF f.body = "bibtex" THEN raises ELSE go_on
            ELSE IF ~raw.ok THEN go_on
            \* raw_page_data.get('slug', stem).replace(...) on an int slug
            ELSE IF raw.metadata.slug = "INT" THEN raises
            ELSE IF ~raw.metadata.valid THEN go_on
            ELSE PagesLoop(ps, em, Tail(files), Append(parsed_pages, PageDict(raw, f)))

SafeParsePages(ps, em, dir) ==
    IF ~dir.exists THEN [raised |-> FALSE, pages |-> <<>>]
    ELSE PagesLoop(ps, em, dir.files, <<>>)

-----------------------------------------------------------------------------
(* Themes.  A rendering is a record: kind "html" with the component and    *)
(* the item fields the template interpolates, kind "comment" for the       *)
(* <!-- ... --> marker, kind "empty" for the empty string.  An item's      *)
(* renders field is FALSE when its data makes the template raise (an       *)
(* undefined field under StrictUndefined, a filter on a value of the wrong *)
(* type).                                                                  *)

Has(d, k) == k \in DOMAIN d
Get(d, k, default) == IF k \in DOMAIN d THEN d[k] ELSE default
Put(d, k, v) == [x \in DOMAIN d \cup {k} |-> IF x = k THEN v ELSE d[x]]

\* the components both themes register that the build uses
Templates ==
    {"publication_item", "project_item", "news_item", "talk_item", "blog_post_item",
     "service_item", "blog_post_page", "page", "section", "landing_page", "page_layout"}

DerivedKeys == {"template_type", "rendered_html", "rendered_schema", "renders"}

\* template.render(item=...): the item templates interpolate source fields
TemplateRender(name, item) ==
    [kind |-> "html", component |-> name,
     shows |-> [k \in DOMAIN item \ DerivedKeys |-> item[k]]]

Comment(msg, name) == [kind |-> "comment", message |-> msg, component |-> name]

\* BaseTheme.render_component, which MinimalTheme inherits
BaseRenderComponent(name, item) ==
    IF name \in Templates
    THEN IF item.renders
         THEN [raised |-> FALSE, html |-> TemplateRender(name, item)]
         ELSE [raised |-> FALSE, html |-> Comment("Template rendering failed", name)]
    ELSE [raised |-> FALSE, html |-> Comment("Missing template", name)]

\* TailwindTheme.render_component
TailwindRenderComponent(name, item) ==
    IF name \in Templates
    THEN IF item.renders
         THEN [raised |-> FALSE, html |-> TemplateRender(name, item)]
         ELSE [raised |-> TRUE]
    ELSE [raised |-> FALSE, html |-> [kind |-> "empty"]]

\* _load_theme: "minimal" gives MinimalTheme, anything else TailwindTheme
render_component(th, name, item) ==
    IF th = "minimal" THEN BaseRenderComponent(name, item)
    ELSE TailwindRenderComponent(name, item)

-----------------------------------------------------------------------------
(* ZenFolio._process_items and the passes of ZenFolio.build.  A path is    *)
(* the sequence of its pieces, a '/' being a piece of its own:             *)
(* 'static/img.png' is <<"static", "/", "img.png">> and '' is <<>>;        *)
(* markdown text is one of a few strings.                                  *)

\* str.startswith
startswith(text, prefix) ==
    Len(text) >= Len(prefix) /\ SubSeq(text, 1, Len(prefix)) = prefix

\* str.removeprefix, a method of str from Python 3.9 on
removeprefix(text, prefix) ==
    IF startswith(text, prefix) THEN SubSeq(text, Len(prefix) + 1, Len(text)) ELSE text

\* setup.py: python_requires=">=3.8"; 3.8 stands for the interpreters
\* without str.removeprefix, 3.9 for those with it
Pythons == {"3.8", "3.9"}

has_removeprefix(python) == python # "3.8"

is_external_url(path) ==
    \/ startswith(path, <<"http:", "/", "/">>)
    \/ startswith(path, <<"https:", "/", "/">>)
    \/ startswith(path, <<"mailto:">>)
    \/ startswith(path, <<"tel:">>)

\* _resolve_path raises AttributeError where str has no removeprefix
resolve_path_raises(path) == ~is_external_url(path) /\ ~has_removeprefix(env.python)

\* _resolve_path, where it returns
resolve_path(path) ==
    IF is_external_url(path) THEN path ELSE removeprefix(path, <<"static", "/">>)

path_fields ==
    {"photo", "image", "paper", "code", "slides", "video", "website", "demo",
     "release_notes", "documentation", "tutorial_page", "materials", "project_page",
     "github", "cv"}

\* _resolve_item_paths: the truthy str values of the path fields are
\* resolved, a field whose resolution raises is set to None; None and ''
\* are both <<>> here, the code skips both
resolve_item_paths(d) ==
    [key \in DOMAIN d |->
        IF key \in path_fields /\ d[key] # <<>>
        THEN IF resolve_path_raises(d[key]) THEN <<>> ELSE resolve_path(d[key])
        ELSE d[key]]

\* markdown.markdown(textwrap.dedent(text).strip()): a block of HTML is
\* passed through as it is
markdown(text) ==
    CASE text = "plain" -> "<p>plain</p>"
      [] text = "*em*"  -> "<p><em>em</em></p>"
      [] OTHER          -> text

\* get_content_processor of each parser
ProcessorOf(p, content_type) ==
    CASE p = "MarkdownParser" -> "markdown"
      [] p = "JupyterParser"  -> IF content_type = "notebook" THEN "identity" ELSE "None"
      [] OTHER                -> "None"

RECURSIVE FirstProcessor(_, _)
FirstProcessor(suitable_parsers, content_type) ==
    IF suitable_parsers = <<>> THEN "None"
    ELSE IF ProcessorOf(Head(suitable_parsers), content_type) # "None"
         THEN ProcessorOf(Head(suitable_parsers), content_type)
         ELSE FirstProcessor(Tail(suitable_parsers), content_type)

\* _process_content_field: the first suitable parser's processor, else markdown
process_content_field(ps, content, content_type) ==
    LET processor == FirstProcessor(get_parsers_for_content_type(ps, content_type),
                                    content_type)
    IN IF processor = "identity" THEN content ELSE markdown(content)

markdown_keys == <<"content", "description", "excerpt">>

\* the one element of a singleton: The({F(x) : x \in {e}}) is F(e) with e
\* evaluated once
The(S) == CHOOSE x \in S : TRUE

\* "if 'content' in item_dict and 'content_raw' not in item_dict"
StoreRaw(item) ==
    IF Has(item, "content") /\ ~Has(item, "content_raw")
    THEN Put(item, "content_raw", item.content) ELSE item

\* the keys handed on without the two exemptions
ToProcess_no_exemption(d, key, item_type) == Has(d, key) /\ d[key] # ""

\* the keys of markdown_keys the loop hands to _process_content_field
ToProcess(d, key, item_type) ==
    LET content_type == Get(d, "content_type", item_type)
        skip_content_processing ==
            item_type = "blog_post_item" \/ content_type = "blog_post_item"
    IN /\ Has(d, key) /\ d[key] # ""
       /\ ~(skip_content_processing /\ key = "content")
       /\ ~(item_type = "service_item" /\ key = "description")

\* "for key in markdown_keys: ... item_dict[key] = processed_content"
ProcessFields(ps, d, item_type) ==
    [k \in DOMAIN d |->
        IF k \in Range(markdown_keys) /\ ToProcess(d, k, item_type)
        THEN process_content_field(ps, d[k], Get(d, "content_type", item_type))
        ELSE d[k]]

\* the <<key, text>> pairs handed to _process_content_field
RenderedFrom(d, item_type) ==
    {<<k, d[k]>> : k \in {x \in Range(markdown_keys) : ToProcess(d, x, item_type)}}

\* item_dict['template_type'] = item_dict.get('template_name') or item_type
WithTemplateType(d, item_type) ==
    Put(d, "template_type",
        IF Get(d, "template_name", "") # "" THEN d.template_name ELSE item_type)

\* SEOGenerator.generate_scholarly_article_schema: the names of the JSON-LD
\* schemas of the string, <<>> for ""
generate_scholarly_article_schema(publication) == <<"ScholarlyArticle">>

\* SEOGenerator.generate_software_application_schema
generate_software_application_schema(project) == <<"SoftwareApplication">>

\* rendered_html and rendered_schema; render_component is not in a try
RenderItem(th, d, item_type, from) ==
    The({IF r.raised THEN [raised |-> TRUE, item |-> d, rendered_from |-> from]
         ELSE [raised |-> FALSE,
               item |-> Put(Put(d, "rendered_html", r.html), "rendered_schema",
                            IF item_type = "publication_item"
                            THEN generate_scholarly_article_schema(d)
                            ELSE IF item_type = "project_item"
                            THEN generate_software_application_schema(d)
                            ELSE <<>>),
               rendered_from |-> from] :
         r \in {render_component(th, d.template_type, d)}})

\* the body of the loop of _process_items for one item:
\* [raised, item (the dict as the call leaves it), rendered_from]
ProcessItem(th, ps, item, item_type) ==
    The({The({RenderItem(th, d4, item_type, RenderedFrom(d2, item_type)) :
              d4 \in {WithTemplateType(ProcessFields(ps, d2, item_type), item_type)}}) :
         d2 \in {resolve_item_paths(StoreRaw(item))}})

RECURSIVE ProcessLoop(_, _, _, _, _, _, _)
\* the loop over items; the items are the dicts coll[i], i in todo, and are
\* changed in place
ProcessLoop(th, ps, coll, todo, item_type, processed, from) ==
    IF todo = <<>>
    THEN [raised |-> FALSE, coll |-> coll, processed |-> processed, rendered_from |-> from]
    ELSE The({The({
            IF r.raised
            THEN [raised |-> TRUE, coll |-> coll2, processed |-> <<>>,
                  rendered_from |-> from2]
            ELSE ProcessLoop(th, ps, coll2, Tail(todo), item_type,
                             Append(processed, r.item), from2) :
            coll2 \in {[coll EXCEPT ![Head(todo)] = r.item]},
            from2 \in {from \cup {<<Head(todo), x[1], x[2]>> : x \in r.rendered_from}}}) :
         r \in {The({ProcessItem(th, ps, item, item_type) : item \in {coll[Head(todo)]}})}})

\* _process_items(items, item_type, seo_generator), items = coll[i] for i in todo
process_items(th, ps, coll, todo, item_type) ==
    ProcessLoop(th, ps, coll, todo, item_type, <<>>, {})

AllOf(coll) == [i \in 1..Len(coll) |-> i]

\* SiteConfig.homepage_publications_count, its default
homepage_publications_count == 3

\* homepage_publications_count = None ("show all highlighted"); the counts
\* are the naturals
NoCount == -1

IndicesWhere(coll, highlight) ==
    SelectIdx([i \in 1..Len(coll) |-> i],
              {i \in 1..Len(coll) : coll[i].highlight = highlight}, 1)

\* highlighted_pubs[:n], also for n beyond the end
FirstN(s, n) == SubSeq(s, 1, IF Len(s) < n THEN Len(s) ELSE n)

\* the selection without the fill from the recent publications
HomepagePubs_no_fill(pubs, pub_count) ==
    LET highlighted_pubs == IndicesWhere(pubs, TRUE)
    IN IF pub_count = NoCount THEN highlighted_pubs
       ELSE FirstN(highlighted_pubs, pub_count)

\* _build_home_page: highlighted publications first, then the recent ones;
\* the result lists the positions of the chosen publications
HomepagePubs(pubs, pub_count) ==
    LET highlighted_pubs == IndicesWhere(pubs, TRUE)
        recent_pubs == IndicesWhere(pubs, FALSE)
    IN IF pub_count = NoCount THEN highlighted_pubs
       ELSE LET homepage_pubs == FirstN(highlighted_pubs, pub_count)
            IN IF Len(homepage_pubs) < pub_count
               THEN homepage_pubs \o FirstN(recent_pubs, pub_count - Len(homepage_pubs))
               ELSE homepage_pubs

-----------------------------------------------------------------------------
(* SEOGenerator.generate_meta_description.  A text is the sequence of its  *)
(* runs: a run of kind "tag" is one match of the pattern '<[^<]+?>', a run *)
(* of kind "text" is a stretch of characters between two matches, and len  *)
(* is the number of characters of the run.                                 *)

RECURSIVE StrLen(_)
\* len(text)
StrLen(text) == IF text = <<>> THEN 0 ELSE Head(text).len + StrLen(Tail(text))

IsText(run) == run.kind = "text"

\* re.sub('<[^<]+?>', '', text)
StripTags(text) == SelectSeq(text, IsText)

RECURSIVE Slice(_, _)
\* text[:n]
Slice(text, n) ==
    IF text = <<>> \/ n <= 0 THEN <<>>
    ELSE IF Head(text).len <= n
         THEN <<Head(text)>> \o Slice(Tail(text), n - Head(text).len)
         ELSE <<[Head(text) EXCEPT !.len = n]>>

MetaDescriptionCap == 155

\* the literal '...'
Ellipsis == [kind |-> "text", len |-> 3, dots |-> TRUE]

\* the page types generate_meta_description has a sentence for
SentencePageTypes == {"publications", "blog", "projects", "talks", "news"}

\* the branches of generate_meta_description: the excerpt of a blog post,
\* the sentence of an item or of a page type, and site.description for the
\* homepage and for every other page type; item = None is the empty dict
generate_meta_description(page_type, item) ==
    IF page_type = "blog_post" /\ DOMAIN item # {} /\ Get(item, "excerpt", <<>>) # <<>>
    THEN LET clean_excerpt == StripTags(item.excerpt)
         IN [kind |-> "excerpt",
             text |-> Slice(clean_excerpt, MetaDescriptionCap)
                      \o (IF StrLen(clean_excerpt) > MetaDescriptionCap
                          THEN <<Ellipsis>> ELSE <<>>)]
    ELSE IF page_type \in {"blog_post", "publication"} /\ DOMAIN item # {}
         THEN [kind |-> "sentence", about |-> page_type]
    ELSE IF page_type \in SentencePageTypes THEN [kind |-> "sentence", about |-> page_type]
    ELSE [kind |-> "site.description"]

-----------------------------------------------------------------------------
(* The pages of ZenFolio.build.  A file name is the sequence of its        *)
(* '/'-separated segments.  A written page is what render_page was given:  *)
(* the page type, the content, the structured data (the names of its       *)
(* JSON-LD schemas, <<>> for None and for "") and the og:image path; the   *)
(* meta description of a blog post page is that of its post, of kind       *)
(* "blog_post" here, and its text is generate_meta_description's.          *)

\* SEOGenerator.generate_person_schema
generate_person_schema(cfg) ==
    IF cfg.disable_structured_data THEN <<>> ELSE <<"Person">>

\* SEOGenerator.generate_blog_posting_schema
generate_blog_posting_schema(cfg, blog_post) ==
    IF cfg.disable_structured_data THEN <<>> ELSE <<"BlogPosting">>

\* the record _render_and_write_page appends for a file name
SeoRecord(filename, today) ==
    [path |-> filename,
     priority |-> IF filename = <<"index.html">> THEN "1.0"
                  ELSE IF filename \in {<<"publications.html">>, <<"projects.html">>}
                       THEN "0.8" ELSE "0.6",
     changefreq |-> IF filename = <<"index.html">> THEN "weekly" ELSE "monthly",
     lastmod |-> today]

\* the tracking without the test for a record of the same path
TrackPage_no_dedup(tracked, filename, today) ==
    Append(tracked, SeoRecord(filename, today))

\* "if not any(page['path'] == filename for page in self.seo_pages)"
TrackPage(tracked, filename, today) ==
    IF \E i \in 1..Len(tracked) : tracked[i].path = filename THEN tracked
    ELSE Append(tracked, SeoRecord(filename, today))

\* AuthorConfig.photo_path, its default
photo_path == <<"profile.jpg">>

\* theme.env.globals before render_page has set 'base_url'
NoGlobals == <<>>

\* url_for and file: self.env.globals.get('base_url', '')
globals_base_url(theme_globals) == Get(theme_globals, "base_url", "")

\* BaseTheme._build_relative_url(base_url, depth=1), for the base URLs used
\* here: an absolute URL as it is, '../' for '' and for './'
build_relative_url(base_url) ==
    IF base_url \in {"http://localhost:8000", "https://yourdomain.com"} THEN base_url
    ELSE "../"

\* _render_and_write_page; site is [seo_pages, written], item_data is <<>>
\* for None, schemas is structured_data_list
RenderAndWritePage(cfg, site, today, filename, content, base_url, page_type, item_data, schemas) ==
    LET structured_data ==
            IF schemas # <<>> THEN schemas
            ELSE IF page_type = "homepage" THEN generate_person_schema(cfg)
            ELSE IF page_type = "blog_post" /\ DOMAIN item_data # {}
                 THEN generate_blog_posting_schema(cfg, item_data)
            ELSE <<>>
        meta_description ==
            IF page_type = "blog_post" /\ DOMAIN item_data # {}
            THEN [kind |-> "blog_post"]
            ELSE generate_meta_description(page_type, <<>>)
        og_image ==
            IF page_type = "blog_post" /\ Has(item_data, "image") /\ item_data.image # <<>>
            THEN <<"static", "/">> \o item_data.image
            ELSE <<"static", "/">> \o photo_path
    IN [seo_pages |-> TrackPage(site.seo_pages, filename, today),
        written |-> Put(site.written, filename,
                        [page_type |-> page_type, content |-> content,
                         structured_data |-> structured_data, og_image |-> og_image,
                         base_url |-> base_url,
                         content_base_url |-> globals_base_url(site.globals),
                         meta_description |-> meta_description]),
        globals |-> [base_url |-> base_url],
        base_url |-> site.base_url]

\* the section, landing_page, page_layout and page templates render what
\* the build gives them
Kwargs(context) == Put(context, "renders", TRUE)

\* the category as it is, in place of its title-cased form
title_as_given(category) == category

\* category.title() if category != 'conference' else 'Conference', for the
\* categories used here
title(category) ==
    CASE category = "conference" -> "Conference"
      [] category = "journal"    -> "Journal"
      [] category = "standard"   -> "Standard"
      [] category = "area_chair" -> "Area_Chair"
      [] OTHER                   -> category

Where(items, Keep(_)) == SelectIdx(items, {i \in 1..Len(items) : Keep(items[i])}, 1)

IsLeadership(item) == item.category = "leadership"
IsReview(item) == item.category # "leadership"

\* _process_service_items: the dict of the two groups, [kind |-> "dict"]
process_service_items(th, ps, items) ==
    The({The({
        [raised |-> leadership.raised \/ review.raised,
         items |-> [kind |-> "dict",
                    keys |-> {"leadership_items", "review_groups"},
                    leadership_items |-> leadership.processed,
                    review_groups |->
                        [c \in {title(x.category) : x \in Range(review.processed)} |->
                            SelectSeq(review.processed,
                                      LAMBDA x : title(x.category) = c)]]] :
        review \in {process_items(th, ps, Where(items, IsReview),
                                  AllOf(Where(items, IsReview)), "service_item")}}) :
        leadership \in {process_items(th, ps, Where(items, IsLeadership),
                                      AllOf(Where(items, IsLeadership)), "service_item")}})

\* a list of processed items as the value of 'items'
ListOf(processed) == [kind |-> "list", list |-> processed]

\* bool(section_data.get('items')): a list is true when it has an item, a
\* dict when it has a key, None is false
bool(items) ==
    CASE items.kind = "list" -> items.list # <<>>
      [] items.kind = "dict" -> items.keys # {}
      [] OTHER               -> FALSE

\* "has_content = bool(section_data.get('items') or section_data.get('content'))"
has_content(section_data) == bool(section_data.items) \/ section_data.content # ""

IsHighlighted(item) == item.highlight

\* SiteConfig.homepage_news_count, its default
homepage_news_count == 3

\* _build_home_page: the sections list, given the pass over the chosen
\* publications and whether a publication is highlighted
HomeSections(th, ps, cfg, bio_data, pubs_pass, pub_section_title) ==
    The({The({The({
        [raised |-> featured.raised \/ service.raised \/ pubs_pass.raised \/ news.raised,
         sections |->
            <<[id |-> "bio", title |-> "About Me", items |-> [kind |-> "None"],
               content |-> markdown(bio_data.bio)],
              [id |-> "featured_work", title |-> "Featured Work",
               items |-> ListOf(featured.processed), content |-> ""],
              [id |-> "academic_service", title |-> "Academic Service",
               items |-> service.items, content |-> ""],
              [id |-> "recent_publications", title |-> pub_section_title,
               items |-> ListOf(pubs_pass.processed), content |-> ""],
              [id |-> "recent_news", title |-> "Recent News",
               items |-> ListOf(news.processed), content |-> ""]>>] :
        news \in {process_items(th, ps, FirstN(cfg.news, homepage_news_count),
                                AllOf(FirstN(cfg.news, homepage_news_count)),
                                "news_item")}}) :
        service \in {process_service_items(th, ps, cfg.service)}}) :
        featured \in {process_items(th, ps, Where(cfg.projects, IsHighlighted),
                                    AllOf(Where(cfg.projects, IsHighlighted)),
                                    "project_item")}})

RECURSIVE RenderSections(_, _, _)
\* "for section in sections": rendered_sections
RenderSections(th, sections, rendered_sections) ==
    IF sections = <<>> THEN [raised |-> FALSE, rendered_sections |-> rendered_sections]
    ELSE IF ~has_content(Head(sections))
         THEN RenderSections(th, Tail(sections), rendered_sections)
    ELSE The({
        IF section_html.raised THEN [raised |-> TRUE, rendered_sections |-> rendered_sections]
        ELSE IF section_html.html.kind = "empty"
             THEN RenderSections(th, Tail(sections), rendered_sections)
        ELSE RenderSections(th, Tail(sections),
                            Append(rendered_sections,
                                   Put(Head(sections), "rendered_html", section_html.html))) :
        section_html \in {render_component(th, "section", Kwargs(Head(sections)))}})

\* _build_home_page after the sections list: the landing page, written as
\* index.html
WriteHomePage(th, cfg, site, today, sections) ==
    The({
        IF rendered.raised THEN [raised |-> TRUE, site |-> site]
        ELSE The({
            IF content.raised THEN [raised |-> TRUE, site |-> site]
            ELSE [raised |-> FALSE,
                  site |-> RenderAndWritePage(cfg, site, today, <<"index.html">>,
                                              content.html, site.base_url, "homepage",
                                              <<>>, <<>>)] :
            content \in {render_component(th, "landing_page",
                             Kwargs([sections |-> rendered.rendered_sections]))}}) :
        rendered \in {RenderSections(th, sections, <<>>)}})

RECURSIVE Concat(_)
Concat(seqs) == IF seqs = <<>> THEN <<>> ELSE Head(seqs) \o Concat(Tail(seqs))

\* _build_list_page after _process_items: the page_layout content and the
\* combined schemas, written as filename; the groups of a grouped page are
\* those of grouped_items
WriteListPage(th, cfg, site, today, page_title, filename, processed_items, group_by) ==
    The({
        IF content.raised THEN [raised |-> TRUE, site |-> site]
        ELSE [raised |-> FALSE,
              site |-> RenderAndWritePage(
                           cfg, site, today, filename, content.html, site.base_url,
                           IF filename = <<"publications.html">> THEN "publications"
                           ELSE "page",
                           <<>>,
                           Concat([i \in 1..Len(processed_items) |->
                                       processed_items[i].rendered_schema]))] :
        content \in {render_component(th, "page_layout",
                         Kwargs([title |-> page_title, group_by |-> group_by,
                                 items |-> processed_items]))}})

\* an empty output directory
EmptyDir == <<>>

\* no page written and none tracked, by a theme that has rendered no page,
\* for a build with the empty base URL
NoPages == [seo_pages |-> <<>>, written |-> EmptyDir, globals |-> NoGlobals, base_url |-> ""]

RECURSIVE BlogPostPages(_, _, _, _, _, _, _)
\* the loop of _build_blog_post_pages over the processed posts: the content
\* is rendered again from content_raw and the page is written
BlogPostPages(th, ps, cfg, site, today, posts, i) ==
    IF i > Len(posts) THEN [raised |-> FALSE, coll |-> posts, site |-> site]
    ELSE The({The({The({
            IF content_html.raised
            THEN [raised |-> TRUE, coll |-> posts2, site |-> site]
            ELSE BlogPostPages(th, ps, cfg,
                               RenderAndWritePage(cfg, site, today, <<"blog", post.slug>>,
                                                  content_html.html,
                                                  build_relative_url(site.base_url),
                                                  "blog_post", post, <<>>),
                               today, posts2, i + 1) :
            content_html \in {render_component(th, "blog_post_page", post)}}) :
            posts2 \in {[posts EXCEPT ![i] = post]}}) :
         post \in {Put(posts[i], "content",
                       process_content_field(ps, posts[i].content_raw,
                                             Get(posts[i], "content_type", "blog_post")))}})

\* the loop of _build_blog_post_pages, for what it leaves in the posts
BlogPagesLoop(th, ps, posts, i) ==
    The({[raised |-> r.raised, coll |-> r.coll] :
         r \in {BlogPostPages(th, ps, [disable_structured_data |-> FALSE], NoPages, 0,
                              posts, i)}})

RECURSIVE StandalonePages(_, _, _, _, _, _, _)
\* the loop of _build_pages over content.pages
StandalonePages(th, ps, cfg, site, today, page_list, i) ==
    IF i > Len(page_list) THEN [raised |-> FALSE, site |-> site]
    ELSE The({
            IF page_content.raised THEN [raised |-> TRUE, site |-> site]
            ELSE StandalonePages(th, ps, cfg,
                                 RenderAndWritePage(cfg, site, today,
                                                    <<"pages", page_list[i].slug>>,
                                                    page_content.html,
                                                    build_relative_url(site.base_url),
                                                    "page", page_list[i], <<>>),
                                 today, page_list, i + 1) :
            page_content \in {render_component(th, "page",
                Kwargs([content |->
                    process_content_field(ps, page_list[i].content,
                                          Get(page_list[i], "content_type", "page"))]))}})

-----------------------------------------------------------------------------
(* Bounds and the inputs the specifications draw from *)

MaxPageFiles == 2
MaxBlogFiles == 3
MaxBibEntries == 3
MaxPosts == 2
MaxPubs == 2
MaxBuilds == 2

\* files for the registry lookups: the name and the body decide the parser
LookupFiles ==
    {File("f", suffix, body, "None", 0, TRUE) :
        suffix \in {".md", ".MD", ".ipynb", ".txt"},
        body \in {"text", "notebook", "unreadable"}}

ContentTypes == {"blog_post", "page", "bio", "notebook", "publication", "markdown"}

Stems == <<"p1", "p2", "p3", "p4">>

\* a directory listing: the i-th file is named Stems[i]
Named(files) == [i \in 1..Len(files) |-> [files[i] EXCEPT !.stem = Stems[i]]]

DirsOf(pool, n) == {Dir(Named(files)) : files \in SeqsUpTo(pool, n)}

PagePool ==
    {File("p", ".MD", "text", "None", 0, TRUE),
     File("p", ".ipynb", "notebook", "None", 0, TRUE),
     File("p", ".ipynb", "text", "None", 0, TRUE),
     File("p", ".txt", "notebook", "None", 0, TRUE),
     File("p", ".txt", "text", "None", 0, TRUE),
     File("p", ".ipynb", "unreadable", "None", 0, TRUE)}

AbsentIndex == File("index", ".md", "absent", "None", 0, TRUE)

\* blog files: markdown posts and notebooks, with or without a slug in the
\* frontmatter, valid or not, one with frontmatter that does not parse and
\* one with an empty slug
BlogPool ==
    {File("p", ".md", "text", slug, date, valid) :
        slug \in {"None", "a"}, date \in {1, 2}, valid \in BOOLEAN}
    \cup {File("p", ".ipynb", "notebook", slug, 1, valid) :
        slug \in {"None", "a"}, valid \in BOOLEAN}
    \cup {File("p", ".md", "badfm", "None", 0, TRUE),
          File("p", ".md", "text", "", 1, TRUE)}

BlogParserPool == {"MarkdownParser", "JupyterParser"}

\* bibliography entries: well-formed ones, one whose year is not a number,
\* one without a year and one without a title
BibPool ==
    {[key |-> "k", has_title |-> TRUE, year |-> y, highlight |-> FALSE] :
        y \in {"2019", "2021", "2023", "n.d.", "None"}}
    \cup {[key |-> "k", has_title |-> FALSE, year |-> "2021", highlight |-> FALSE]}

BibKeys == <<"k1", "k2", "k3", "k4">>

Keyed(entries) == [i \in 1..Len(entries) |-> [entries[i] EXCEPT !.key = BibKeys[i]]]

BibsOf(n) == {Bib(Keyed(entries)) : entries \in SeqsUpTo(BibPool, n)}

\* a content directory for Content.load(): each part present or absent,
\* well-formed or not
IndexPool ==
    {AbsentIndex,
     File("index", ".md", "text", "None", 0, TRUE),
     File("index", ".md", "text", "None", 0, FALSE),
     File("index", ".md", "badfm", "None", 0, TRUE)}

LoadBibs ==
    {NoBib,
     Bib(Keyed(<<[key |-> "k", has_title |-> TRUE, year |-> "2021", highlight |-> FALSE]>>)),
     Bib(Keyed(<<[key |-> "k", has_title |-> TRUE, year |-> "2021", highlight |-> FALSE],
                 [key |-> "k", has_title |-> TRUE, year |-> "n.d.", highlight |-> FALSE]>>))}

LoadBlogs ==
    {NoDir,
     Dir(Named(<<File("p", ".md", "text", "None", 1, TRUE)>>)),
     Dir(Named(<<File("p", ".ipynb", "unreadable", "None", 0, TRUE),
                 File("p", ".md", "text", "None", 1, TRUE)>>))}

\* loaded blog posts (BlogPost.to_dict()) as the build receives them
PostPool ==
    {[slug |-> "s", excerpt |-> excerpt, image |-> image, content |-> "*em*",
      content_raw |-> "*em*", content_type |-> "markdown",
      template_name |-> "blog_post_item", renders |-> TRUE] :
        excerpt \in {"", "plain"},
        image \in {<<>>, <<"static", "/", "static", "/", "hero.png">>}}
    \cup {[slug |-> "s", excerpt |-> "*em*", image |-> <<"https:", "/", "/", "cdn", "/", "hero.png">>,
           content |-> "*em*", content_raw |-> "*em*", content_type |-> "markdown",
           template_name |-> template_name, renders |-> renders] :
        template_name \in {"blog_post_item", "fancy"}, renders \in BOOLEAN}

PostSlugs == <<"s1", "s2", "s3">>

PostLists ==
    {[i \in 1..Len(posts) |-> [posts[i] EXCEPT !.slug = PostSlugs[i]]] :
        posts \in SeqsUpTo(PostPool, MaxPosts)}

\* loaded publications, sorted by year as BibtexParser.parse_file leaves them
PubPool ==
    {[key |-> "k", year |-> 0, highlight |-> highlight, renders |-> renders] :
        highlight \in BOOLEAN, renders \in BOOLEAN}

PubYears == <<2023, 2021, 2019>>

PubLists ==
    {[i \in 1..Len(pubs) |-> [pubs[i] EXCEPT !.key = BibKeys[i], !.year = PubYears[i]]] :
        pubs \in SeqsUpTo(PubPool, MaxPubs)}

ComponentNames == {"blog_post_item", "publication_item", "fancy"}

LoadPagePool ==
    {File("p", ".md", "text", "None", 0, TRUE),
     File("p", ".md", "text", "None", 0, FALSE),
     File("p", ".md", "text", "INT", 0, TRUE),
     File("p", ".ipynb", "unreadable", "None", 0, TRUE),
     File("p", ".bib", "bibtex", "None", 0, TRUE),
     [File("p", ".md", "text", "None", 0, TRUE) EXCEPT !.hidden = TRUE]}

-----------------------------------------------------------------------------
(* Actions *)

\* ParserRegistry.register(p)
Register(p) ==
    /\ load_outcome = "none"
    /\ LET r == RegisterOp(parsers, extension_map, p)
       IN /\ parsers' = r.parsers
          /\ extension_map' = r.extension_map
    /\ last_call' = [op |-> "register", arg |-> p,
                     result |-> IF p \in Range(parsers) THEN "registered before"
                                ELSE "added"]
    /\ UNCHANGED <<content_dir_vars, content_vars, build_vars>>

\* ParserRegistry.get_parser_for_file(f)
GetParserForFile(f) ==
    /\ last_call' = [op |-> "get_parser_for_file", arg |-> f,
                     result |-> get_parser_for_file(parsers, extension_map, f)]
    /\ UNCHANGED <<parsers, extension_map, content_dir_vars, content_vars, build_vars>>

\* ParserRegistry.get_parsers_for_content_type(t)
GetParsersForContentType(t) ==
    /\ last_call' = [op |-> "get_parsers_for_content_type", arg |-> t,
                     result |-> get_parsers_for_content_type(parsers, t)]
    /\ UNCHANGED <<parsers, extension_map, content_dir_vars, content_vars, build_vars>>

\* Content.load(): the four classes are assigned in turn; only
\* _safe_parse_pages has no try/except around its body
Load ==
    /\ load_outcome = "none"
    /\ bio' = SafeParseBioData(parsers, extension_map, index_md, has_author)
    /\ publications' = SafeParsePublications(bib_file)
    /\ blog_posts' = SafeParseBlogPosts(parsers, blog_dir)
    /\ LET r == SafeParsePages(parsers, extension_map, pages_dir)
       IN IF r.raised
          THEN pages' = pages /\ load_outcome' = "raised"
          ELSE pages' = r.pages /\ load_outcome' = "returned"
    /\ UNCHANGED <<registry_vars, content_dir_vars, build_vars>>

\* theme.render_component(name, item=item) on a loaded record
RenderComponent(name, item) ==
    /\ stage # "load"
    /\ last_call' = [op |-> "render_component", arg |-> name, item |-> item,
                     result |-> render_component(theme, name, item)]
    /\ UNCHANGED <<parsers, extension_map, content_dir_vars, content_vars, build_vars>>

\* what the build keeps of one _process_items pass
PassEntry(page, of, given, r) ==
    [page |-> page, of |-> of, given |-> given,
     outcome |-> IF r.raised THEN "raised" ELSE "returned",
     returned |-> r.processed, rendered_from |-> r.rendered_from]

\* [seo_pages, written] as they are
\* the blog entry of built_pages whenever posts were loaded
BuiltPages_blog_without_folder(cfg, posts) ==
    <<<<"publications", "Publications">>>>
    \o (IF cfg.projects # <<>> THEN <<<<"projects", "Projects">>>> ELSE <<>>)
    \o (IF cfg.talks # <<>> THEN <<<<"talks", "Talks">>>> ELSE <<>>)
    \o (IF cfg.news # <<>> THEN <<<<"news", "News">>>> ELSE <<>>)
    \o (IF posts # <<>> THEN <<<<"blog", "Blog">>>> ELSE <<>>)

\* build(): built_pages, "Determine which pages will be built BEFORE
\* building them"
BuiltPages(cfg, posts) ==
    <<<<"publications", "Publications">>>>
    \o (IF cfg.projects # <<>> THEN <<<<"projects", "Projects">>>> ELSE <<>>)
    \o (IF cfg.talks # <<>> THEN <<<<"talks", "Talks">>>> ELSE <<>>)
    \o (IF cfg.news # <<>> THEN <<<<"news", "News">>>> ELSE <<>>)
    \o (IF posts # <<>> /\ cfg.blog_folder # "None" THEN <<<<"blog", "Blog">>>> ELSE <<>>)

Site ==
    [seo_pages |-> seo_pages, written |-> written, globals |-> globals,
     base_url |-> env.base_url]

\* datetime.now(), as a day number: a later build has a later date
Today == Len(outputs) + 1

\* what a step of build() leaves: the pages written and tracked, and the
\* next step or the exception that ends build()
Leaves(raised, site, next_stage) ==
    /\ seo_pages' = site.seo_pages
    /\ written' = site.written
    /\ stage' = IF raised THEN "raised" ELSE next_stage
    /\ exc' = IF raised THEN "TemplateNotFound" ELSE exc
    /\ globals' = site.globals
    /\ UNCHANGED <<call_args, env, config, source, outputs, build_result, built_pages>>

\* a call that raised wrote nothing
Raised == [raised |-> TRUE, site |-> Site]

\* pub_section_title
PubSectionTitle(pubs) ==
    IF IndicesWhere(pubs, TRUE) # <<>> THEN "Selected Publications"
    ELSE "Recent Publications"

\* an exception of the class named ends build()
Raises(exception) ==
    /\ stage' = "raised"
    /\ exc' = exception
    /\ UNCHANGED <<call_args, env, config, source, written, seo_pages, outputs, build_result,
                   globals, built_pages>>

\* build(): _build_home_page with config.projects = None, which raises at
\* "self.config.projects.items"
BuildHomePageWithoutProjects ==
    /\ stage = "home"
    /\ "projects" \in config.none
    /\ Raises("AttributeError")
    /\ UNCHANGED <<registry_vars, content_dir_vars, content_vars, theme, pass_log>>

\* build(): _build_home_page; with config.news = None the sections list
\* raises at "self.config.news.items" after the publications were processed
BuildHomePage ==
    /\ stage = "home"
    /\ "projects" \notin config.none
    /\ \E given \in {HomepagePubs(publications, config.homepage_publications_count)} :
       \E r \in {process_items(theme, parsers, publications, given, "publication_item")} :
       \E home \in {HomeSections(theme, parsers, config, bio, r,
                                 PubSectionTitle(publications))} :
       \E page \in {IF home.raised THEN Raised
                    ELSE WriteHomePage(theme, config, Site, Today, home.sections)} :
          /\ publications' = r.coll
          /\ pass_log' = Append(pass_log, PassEntry("index.html", "publications", given, r))
          /\ IF ~home.raised /\ "news" \in config.none
             THEN Raises("AttributeError")
             ELSE Leaves(page.raised, page.site, "publications")
    /\ UNCHANGED <<registry_vars, content_dir_vars, bio, blog_posts, pages,
                   load_outcome, theme>>

\* build(): _build_list_page("Publications", "publications.html", ...)
BuildPublicationsPage ==
    /\ stage = "publications"
    /\ \E given \in {AllOf(publications)} :
       \E r \in {process_items(theme, parsers, publications, given, "publication_item")} :
       \E page \in {IF r.raised THEN Raised
                    ELSE WriteListPage(theme, config, Site, Today, "Publications",
                                       <<"publications.html">>, r.processed, "year")} :
          /\ publications' = r.coll
          /\ pass_log' = Append(pass_log,
                                PassEntry("publications.html", "publications", given, r))
          /\ Leaves(page.raised, page.site, "projects")
    /\ UNCHANGED <<registry_vars, content_dir_vars, bio, blog_posts, pages,
                   load_outcome, theme>>

\* the list pages build() makes of the items of the configuration
ConfigPages ==
    [projects |-> [title |-> "Projects", filename |-> <<"projects.html">>,
                   item_type |-> "project_item", next |-> "talks"],
     talks    |-> [title |-> "Talks", filename |-> <<"talks.html">>,
                   item_type |-> "talk_item", next |-> "news"],
     news     |-> [title |-> "News", filename |-> <<"news.html">>,
                   item_type |-> "news_item", next |-> "blog"]]

\* build(): "if self.config.<name>.items: self._build_list_page(...)"; the
\* items are dicts made by to_dict() for this call
BuildConfigPage(name) ==
    /\ stage = name
    /\ \E r \in {process_items(theme, parsers, config[name], AllOf(config[name]),
                               ConfigPages[name].item_type)} :
       \E page \in {IF config[name] = <<>> THEN [raised |-> FALSE, site |-> Site]
                    ELSE IF r.raised THEN Raised
                    ELSE WriteListPage(theme, config, Site, Today, ConfigPages[name].title,
                                       ConfigPages[name].filename, r.processed, "None")} :
          Leaves(page.raised, page.site, ConfigPages[name].next)
    /\ UNCHANGED <<registry_vars, content_dir_vars, content_vars, theme, pass_log>>

\* build(): "if self.content.blog_posts and self.config.site.blog_folder:
\* self._build_list_page("Blog", "blog.html", ...)", then
\* _build_blog_post_pages
BuildBlogPage ==
    /\ stage = "blog"
    /\ IF blog_posts = <<>> \/ config.blog_folder = "None"
       THEN /\ Leaves(FALSE, Site, "pages")
            /\ UNCHANGED <<blog_posts, pass_log>>
       ELSE \E given \in {AllOf(blog_posts)} :
            \E r \in {process_items(theme, parsers, blog_posts, given, "blog_post_item")} :
            \E page \in {IF r.raised THEN Raised
                         ELSE WriteListPage(theme, config, Site, Today, "Blog",
                                            <<"blog.html">>, r.processed, "None")} :
               /\ blog_posts' = r.coll
               /\ pass_log' = Append(pass_log,
                                     PassEntry("blog.html", "blog_posts", given, r))
               /\ Leaves(page.raised, page.site, "blog_pages")
    /\ UNCHANGED <<registry_vars, content_dir_vars, bio, publications, pages,
                   load_outcome, theme>>

\* build(): _build_blog_post_pages; the texts here hold no {static} and no
\* <img>, so _process_static_placeholders leaves them as they are
BuildBlogPostPages ==
    /\ stage = "blog_pages"
    /\ \E given \in {AllOf(blog_posts)} :
       \E r \in {process_items(theme, parsers, blog_posts, given, "blog_post_item")} :
       \E pages_loop \in {IF r.raised THEN [raised |-> TRUE, coll |-> r.coll, site |-> Site]
                           ELSE BlogPostPages(theme, parsers, config, Site, Today,
                                              r.coll, 1)} :
          /\ blog_posts' = pages_loop.coll
          /\ pass_log' = Append(pass_log,
                                PassEntry("blog/<slug>.html", "blog_posts", given, r))
          /\ Leaves(pages_loop.raised, pages_loop.site, "pages")
    /\ UNCHANGED <<registry_vars, content_dir_vars, bio, publications, pages,
                   load_outcome, theme>>

\* build(): _build_pages
BuildPages ==
    /\ stage = "pages"
    /\ \E pages_loop \in {StandalonePages(theme, parsers, config, Site, Today, pages, 1)} :
          Leaves(pages_loop.raised, pages_loop.site, "sitemap")
    /\ UNCHANGED <<registry_vars, content_dir_vars, content_vars, theme, pass_log>>

\* SEOGenerator.generate_sitemap_xml: one <url> per record
generate_sitemap_xml(tracked) ==
    [i \in 1..Len(tracked) |->
        [loc |-> tracked[i].path, changefreq |-> tracked[i].changefreq,
         priority |-> tracked[i].priority, lastmod |-> tracked[i].lastmod]]

\* build(): _generate_sitemap and "return True"
GenerateSitemap ==
    /\ stage = "sitemap"
    /\ written' = IF seo_pages = <<>> THEN written
                  ELSE Put(written, <<"sitemap.xml">>,
                           [page_type |-> "sitemap",
                            content |-> generate_sitemap_xml(seo_pages)])
    /\ outputs' = Append(outputs, [written |-> written', seo_pages |-> seo_pages])
    /\ stage' = "done"
    /\ UNCHANGED <<registry_vars, content_dir_vars, content_vars, theme, pass_log,
                   call_args, env, config, source, seo_pages, build_result, exc, globals,
                   built_pages>>

\* build_site: ZenFolio(content_dir=...), which loads config.py and makes
\* the theme
Construct ==
    /\ stage = "init"
    /\ seo_pages' = <<>>
    /\ stage' = IF env.config_file = "ok" THEN "start" ELSE "raised"
    /\ exc' = CASE env.config_file = "missing" -> "FileNotFoundError"
                [] env.config_file = "invalid" -> "SyntaxError"
                [] OTHER -> exc
    /\ globals' = NoGlobals
    /\ built_pages' = <<>>
    /\ UNCHANGED <<registry_vars, content_dir_vars, content_vars, theme, pass_log,
                   call_args, env, config, source, written, outputs, build_result>>

\* build(): the output directory is removed and made, content.load() gives
\* the records of the content directory, and built_pages is set
BuildStart ==
    /\ stage = "start"
    /\ IF env.output_dir = "read-only"
       THEN /\ stage' = "raised"
            /\ exc' = "PermissionError"
            /\ UNCHANGED <<content_vars, written, built_pages>>
       ELSE /\ stage' = "home"
            /\ exc' = exc
            /\ written' = EmptyDir
            /\ bio' = source.bio
            /\ publications' = source.publications
            /\ blog_posts' = source.blog_posts
            /\ pages' = source.pages
            /\ load_outcome' = "returned"
            /\ built_pages' = BuiltPages(config, source.blog_posts)
    /\ UNCHANGED <<registry_vars, content_dir_vars, theme, pass_log,
                   call_args, env, config, source, seo_pages, outputs, build_result, globals>>

\* build_site without its last handler, "except Exception"
build_site_named_handlers(build_raised, exception) ==
    IF ~build_raised THEN "True"
    ELSE IF exception \in {"ImportError", "FileNotFoundError", "PermissionError",
                           "ZenFolioBuildError"}
         THEN "False"
    ELSE "raised"

\* build_site: True after build() returned, False from each handler
build_site(build_raised, exception) ==
    IF ~build_raised THEN "True"
    ELSE IF exception \in {"ImportError", "FileNotFoundError", "PermissionError",
                           "ZenFolioBuildError"}
         THEN "False"
    ELSE "False"

\* build_site returns to its caller
BuildSiteReturns ==
    /\ stage \in {"done", "raised"}
    /\ build_result = "none"
    /\ build_result' = build_site(stage = "raised", exc)
    /\ UNCHANGED <<registry_vars, content_dir_vars, content_vars, theme, stage, pass_log,
                   call_args, env, config, source, written, seo_pages, outputs, exc, globals,
                   built_pages>>

\* build() called again on the generator that has built, by a caller that
\* holds the generator
BuildAgain ==
    /\ stage = "done"
    /\ build_result = "none"
    /\ Len(outputs) < MaxBuilds
    /\ stage' = "start"
    /\ UNCHANGED <<registry_vars, content_dir_vars, content_vars, theme, pass_log,
                   site_vars>>

\* build_site called again: a new generator on the same directories
BuildSiteAgain ==
    /\ stage = "done"
    /\ build_result # "none"
    /\ Len(outputs) < MaxBuilds
    /\ stage' = "init"
    /\ build_result' = "none"
    /\ UNCHANGED <<registry_vars, content_dir_vars, content_vars, theme, pass_log,
                   call_args, env, config, source, written, seo_pages, outputs, exc, globals,
                   built_pages>>

-----------------------------------------------------------------------------
(* Specifications *)

\* Content.__init__
FreshContent ==
    /\ bio = <<>>
    /\ publications = <<>>
    /\ blog_posts = <<>>
    /\ pages = <<>>
    /\ load_outcome = "none"

\* Config(): no projects, talks, news or service items; none holds the
\* names of the blocks projects, talks and news that config.py sets to None,
\* and such a block has no items
DefaultConfig ==
    [projects |-> <<>>, talks |-> <<>>, news |-> <<>>, service |-> <<>>,
     homepage_publications_count |-> homepage_publications_count,
     disable_structured_data |-> FALSE, blog_folder |-> "blog", none |-> {}]

\* a readable config.py, a writable output directory, an interpreter with
\* str.removeprefix, and the empty base URL of a development build
GoodEnv == [config_file |-> "ok", output_dir |-> "ok", python |-> "3.9", base_url |-> ""]

\* no build_site call and no build() yet
NoSite ==
    /\ env = GoodEnv
    /\ config = DefaultConfig
    /\ source = [bio |-> ConfigBio, publications |-> <<>>, blog_posts |-> <<>>,
                 pages |-> <<>>]
    /\ written = EmptyDir
    /\ seo_pages = <<>>
    /\ outputs = <<>>
    /\ build_result = "none"
    /\ exc = "None"
    /\ globals = NoGlobals
    /\ built_pages = <<>>

\* ZenFolio.__init__ before build() has reached its pages
BuildNotStarted ==
    /\ theme = "minimal"
    /\ stage = "load"
    /\ pass_log = <<>>
    /\ call_args = <<>>
    /\ NoSite

EmptyRegistry ==
    /\ parsers = <<>>
    /\ extension_map = EmptyMap
    /\ last_call = [op |-> "none"]

ImportedRegistry ==
    /\ parsers = DefaultRegistry.parsers
    /\ extension_map = DefaultRegistry.extension_map
    /\ last_call = [op |-> "none"]

EmptyContentDir ==
    /\ index_md = AbsentIndex
    /\ has_author = TRUE
    /\ bib_file = NoBib
    /\ blog_dir = NoDir
    /\ pages_dir = NoDir

\* the registry on its own: any parsers registered in any order, and looked up
InitRegistry == EmptyRegistry /\ EmptyContentDir /\ FreshContent /\ BuildNotStarted

NextRegistry ==
    \/ \E p \in ParserPool : Register(p)
    \/ \E f \in LookupFiles : GetParserForFile(f)
    \/ \E t \in ContentTypes : GetParsersForContentType(t)

SpecRegistry == InitRegistry /\ [][NextRegistry]_vars

\* the pages directory loaded through a registry filled in any order
InitPages ==
    /\ EmptyRegistry
    /\ index_md = AbsentIndex
    /\ has_author = TRUE
    /\ bib_file = NoBib
    /\ blog_dir = NoDir
    /\ pages_dir \in {NoDir} \cup DirsOf(PagePool, MaxPageFiles)
    /\ FreshContent
    /\ BuildNotStarted

NextPages ==
    \/ \E p \in ParserPool : Register(p)
    \/ \E f \in Range(pages_dir.files) : GetParserForFile(f)
    \/ Load

SpecPages == InitPages /\ [][NextPages]_vars

\* the blog directory loaded through the blog parsers registered in any order
InitBlog ==
    /\ EmptyRegistry
    /\ index_md = AbsentIndex
    /\ has_author = TRUE
    /\ bib_file = NoBib
    /\ blog_dir \in {NoDir} \cup DirsOf(BlogPool, MaxBlogFiles)
    /\ pages_dir = NoDir
    /\ FreshContent
    /\ BuildNotStarted

NextBlog ==
    \/ \E p \in BlogParserPool : Register(p)
    \/ Load

SpecBlog == InitBlog /\ [][NextBlog]_vars

\* a bibliography file loaded with the parsers registered at import
InitBib ==
    /\ ImportedRegistry
    /\ index_md = AbsentIndex
    /\ has_author = TRUE
    /\ bib_file \in {NoBib} \cup BibsOf(MaxBibEntries)
    /\ blog_dir = NoDir
    /\ pages_dir = NoDir
    /\ FreshContent
    /\ BuildNotStarted

NextBib == Load

SpecBib == InitBib /\ [][NextBib]_vars

\* Content.load() on a whole content directory, parsers registered at import
InitLoad ==
    /\ ImportedRegistry
    /\ index_md \in IndexPool
    /\ has_author \in BOOLEAN
    /\ bib_file \in LoadBibs
    /\ blog_dir \in LoadBlogs
    /\ pages_dir \in {NoDir} \cup DirsOf(LoadPagePool, MaxPageFiles)
    /\ FreshContent
    /\ BuildNotStarted

NextLoad == Load

SpecLoad == InitLoad /\ [][NextLoad]_vars

\* build() after content.load(): the passes over the loaded records
InitBuild ==
    /\ ImportedRegistry
    /\ EmptyContentDir
    /\ bio = ConfigBio
    /\ publications \in PubLists
    /\ blog_posts \in PostLists
    /\ pages = <<>>
    /\ load_outcome = "returned"
    /\ theme \in {"minimal", "tailwind"}
    /\ stage = "home"
    /\ pass_log = <<>>
    /\ call_args = <<>>
    /\ NoSite

NextBuild ==
    \/ BuildHomePage
    \/ BuildPublicationsPage
    \/ \E name \in DOMAIN ConfigPages : BuildConfigPage(name)
    \/ BuildBlogPage
    \/ BuildBlogPostPages
    \/ BuildPages
    \/ GenerateSitemap

SpecBuild == InitBuild /\ [][NextBuild]_vars

\* build_site and build() on whole sites: small content directories under
\* configurations with and without each kind of item
SiteProjects ==
    {<<>>} \cup
    {<<[slug |-> "pr", description |-> "*em*", highlight |-> highlight,
        renders |-> TRUE]>> : highlight \in BOOLEAN}

SiteTalks == {<<>>, <<[slug |-> "tk", description |-> "plain", renders |-> TRUE]>>}

SiteNews ==
    {<<>>, <<[slug |-> "nw", content |-> "plain", highlight |-> FALSE, renders |-> TRUE]>>}

SiteService ==
    {<<>>, <<[description |-> "plain", category |-> "leadership", renders |-> TRUE],
             [description |-> "*em*", category |-> "conference", renders |-> TRUE]>>}

SiteConfigs ==
    {[projects |-> p, talks |-> t, news |-> n, service |-> s,
      homepage_publications_count |-> homepage_publications_count,
      disable_structured_data |-> d, blog_folder |-> "blog", none |-> {}] :
        p \in SiteProjects, t \in SiteTalks, n \in SiteNews, s \in SiteService,
        d \in BOOLEAN}
    \cup {[DefaultConfig EXCEPT !.blog_folder = "None"]}
    \cup {[DefaultConfig EXCEPT !.none = {name}] : name \in {"projects", "talks", "news"}}

\* the pages directory without a file and with p1.md and p2.md, as
\* _safe_parse_pages loads them; no frontmatter gives a slug
SitePages ==
    {<<>>,
     <<PageDict([metadata |-> [slug |-> "None"], content |-> "plain"], [stem |-> "p1"]),
       PageDict([metadata |-> [slug |-> "None"], content |-> "*em*"], [stem |-> "p2"])>>}

SitePosts ==
    {posts \in PostLists :
        /\ Len(posts) <= 1
        /\ \A i \in 1..Len(posts) :
              /\ posts[i].image = <<"static", "/", "static", "/", "hero.png">>
              /\ posts[i].excerpt = "plain"}

SiteSources ==
    {[bio |-> b, publications |-> pubs, blog_posts |-> posts, pages |-> pgs] :
        b \in {ConfigBio, ParsedBio},
        pubs \in {x \in PubLists : Len(x) <= 1},
        posts \in SitePosts,
        pgs \in SitePages}

\* the base URL build_site gives build(): '' of a development build, and
\* site.base_url as Config() has it
BuildBaseUrls == {"", "https://yourdomain.com"}

\* a config.py that is missing or does not load, an output directory that
\* cannot be written
BadEnvs ==
    {[GoodEnv EXCEPT !.config_file = "missing"],
     [GoodEnv EXCEPT !.config_file = "invalid"],
     [GoodEnv EXCEPT !.output_dir = "read-only"]}

InitSite ==
    /\ ImportedRegistry
    /\ EmptyContentDir
    /\ FreshContent
    /\ theme \in {"minimal", "tailwind"}
    /\ stage = "init"
    /\ pass_log = <<>>
    /\ call_args = <<>>
    /\ \/ env = GoodEnv /\ config \in SiteConfigs /\ source \in SiteSources
       \/ /\ env \in {[GoodEnv EXCEPT !.base_url = base_url] : base_url \in BuildBaseUrls}
          /\ config = DefaultConfig
          /\ source \in SiteSources
       \/ /\ env \in BadEnvs
          /\ config = DefaultConfig
          /\ source = [bio |-> ConfigBio, publications |-> <<>>, blog_posts |-> <<>>,
                       pages |-> <<>>]
    /\ written = EmptyDir
    /\ seo_pages = <<>>
    /\ outputs = <<>>
    /\ build_result = "none"
    /\ exc = "None"
    /\ globals = NoGlobals
    /\ built_pages = <<>>

NextSite ==
    \/ Construct
    \/ BuildStart
    \/ NextBuild
    \/ BuildHomePageWithoutProjects
    \/ BuildSiteReturns
    \/ BuildAgain
    \/ BuildSiteAgain

SpecSite == InitSite /\ [][NextSite]_vars

\* the loaded theme asked for components, on the loaded records
NextTheme ==
    \E name \in ComponentNames :
       \E item \in Range(blog_posts) \cup Range(publications) :
          RenderComponent(name, item)

SpecTheme == InitBuild /\ [][NextTheme]_vars

-----------------------------------------------------------------------------
(* The calls of generate_meta_description *)

MaxExcerptRuns == 3

\* the runs of an excerpt: <p> and </p>, and texts around the cap
ExcerptRuns ==
    {[kind |-> "tag", len |-> n, dots |-> FALSE] : n \in {3, 4}}
    \cup {[kind |-> "text", len |-> n, dots |-> FALSE] :
             n \in {1, 77, MetaDescriptionCap, MetaDescriptionCap + 1}}

\* a rendered excerpt never has two text runs side by side
Excerpts ==
    {e \in SeqsUpTo(ExcerptRuns, MaxExcerptRuns) :
        \A i \in 1..(Len(e) - 1) : ~(IsText(e[i]) /\ IsText(e[i + 1]))}

MetaCalls ==
    {<<"blog_post", [slug |-> "s1", excerpt |-> e]>> : e \in Excerpts}
    \cup {<<page_type, <<>>>> : page_type \in {"homepage", "publications", "page"}}

\* seo_generator.generate_meta_description(page_type, item_data)
GenerateMetaDescription ==
    /\ last_call.op = "none"
    /\ last_call' = [op |-> "generate_meta_description", arg |-> call_args,
                     result |-> generate_meta_description(call_args[1], call_args[2])]
    /\ UNCHANGED <<parsers, extension_map, content_dir_vars, content_vars, build_vars>>

InitMeta ==
    /\ ImportedRegistry
    /\ EmptyContentDir
    /\ FreshContent
    /\ theme = "minimal"
    /\ stage = "load"
    /\ pass_log = <<>>
    /\ NoSite
    /\ call_args \in MetaCalls

SpecMeta == InitMeta /\ [][GenerateMetaDescription]_vars

-----------------------------------------------------------------------------
(* The publication list of the home page, for any count *)

MaxHomePubs == 5
MaxPubCount == 3

\* publications as BibtexParser.parse_file leaves them: newest first
HomePubLists ==
    UNION {{[i \in 1..n |-> [key |-> i, year |-> MaxHomePubs + 1 - i, highlight |-> h[i]]] :
               h \in [1..n -> BOOLEAN]} : n \in 0..MaxHomePubs}

HomePubCalls == HomePubLists \X ({NoCount} \cup 0..MaxPubCount)

\* _build_home_page: the choice of homepage_pubs
SelectHomepagePubs ==
    /\ last_call.op = "none"
    /\ last_call' = [op |-> "homepage_pubs", arg |-> call_args,
                     result |-> HomepagePubs(call_args[1], call_args[2])]
    /\ UNCHANGED <<parsers, extension_map, content_dir_vars, content_vars, build_vars>>

InitHomePubs ==
    /\ ImportedRegistry
    /\ EmptyContentDir
    /\ FreshContent
    /\ theme = "minimal"
    /\ stage = "load"
    /\ pass_log = <<>>
    /\ NoSite
    /\ call_args \in HomePubCalls

SpecHomePubs == InitHomePubs /\ [][SelectHomepagePubs]_vars

-----------------------------------------------------------------------------
(* The groups of a list page (_build_list_page with group_by).  A group    *)
(* key is an int, [type |-> "int", value |-> n], or a str, [type |->       *)
(* "str", chars |-> the sequence of its character codes].                  *)

IntKey(n) == [type |-> "int", value |-> n]
StrKey(chars) == [type |-> "str", chars |-> chars]

Digits == 48..57

\* the strings int() converts: here the strings of decimal digits
IsDigits(chars) == chars # <<>> /\ \A i \in 1..Len(chars) : chars[i] \in Digits

RECURSIVE IntOfChars(_)
IntOfChars(chars) ==
    IF chars = <<>> THEN 0
    ELSE 10 * IntOfChars(SubSeq(chars, 1, Len(chars) - 1)) + (chars[Len(chars)] - 48)

IntConvertible(k) == k.type = "int" \/ IsDigits(k.chars)

\* int(k)
int(k) == IF k.type = "int" THEN k.value ELSE IntOfChars(k.chars)

RECURSIVE LexLess(_, _)
\* a < b for two str
LexLess(a, b) ==
    IF b = <<>> THEN FALSE
    ELSE IF a = <<>> THEN TRUE
    ELSE IF Head(a) # Head(b) THEN Head(a) < Head(b)
    ELSE LexLess(Tail(a), Tail(b))

\* "if key:"
TruthyKey(k) == IF k.type = "int" THEN k.value # 0 ELSE k.chars # <<>>

\* the place of keys[i] among the keys, in the order of the str
LexRank(keys) ==
    [i \in 1..Len(keys) |->
        Cardinality({j \in 1..Len(keys) : LexLess(keys[j].chars, keys[i].chars)})]

\* sorted(keys, reverse=True): the keys compared with one another, which
\* raises TypeError for an int next to a str
sorted_fallback(keys) ==
    IF \E i, j \in 1..Len(keys) : keys[i].type # keys[j].type
    THEN [raised |-> TRUE]
    ELSE [raised |-> FALSE,
          keys |-> IF keys # <<>> /\ keys[1].type = "int"
                   THEN SortDesc(keys, [i \in 1..Len(keys) |-> keys[i].value])
                   ELSE SortDesc(keys, LexRank(keys))]

\* the order of the groups without the numeric sort
sorted_keys_no_int(keys) == sorted_fallback(keys)

\* sorted(keys, key=int, reverse=True), and on ValueError the fallback
sorted_keys(keys) ==
    IF \A i \in 1..Len(keys) : IntConvertible(keys[i])
    THEN [raised |-> FALSE,
          keys |-> SortDesc(keys, [i \in 1..Len(keys) |-> int(keys[i])])]
    ELSE sorted_fallback(keys)

RECURSIVE FirstOccurrences(_, _, _)
\* the keys of the dict grouped_items, in insertion order
FirstOccurrences(items, group_by, seen) ==
    IF items = <<>> THEN seen
    ELSE LET key == Head(items)[group_by]
         IN FirstOccurrences(Tail(items), group_by,
                IF TruthyKey(key) /\ key \notin Range(seen)
                THEN Append(seen, key) ELSE seen)

HasKey(item, group_by, key) == item[group_by] = key

\* page_data['grouped_items']
grouped_items(processed_items, group_by) ==
    LET order == sorted_keys(FirstOccurrences(processed_items, group_by, <<>>))
    IN IF order.raised THEN [raised |-> TRUE]
       ELSE [raised |-> FALSE,
             groups |-> [g \in 1..Len(order.keys) |->
                 [group_name |-> order.keys[g],
                  items |-> SelectSeq(processed_items,
                                LAMBDA item : HasKey(item, group_by, order.keys[g]))]]]

MaxGroupItems == 3

\* the years BibtexParser gives (0 for an entry without one) and years
\* written as text: "2019", "2021", "2023", "900", "n.d.", "in press", ""
YearKeys ==
    [int |-> {IntKey(n) : n \in {0, 900, 2019, 2021, 2023}},
     str |-> {StrKey(<<50, 48, 49, 57>>), StrKey(<<50, 48, 50, 49>>),
              StrKey(<<50, 48, 50, 51>>), StrKey(<<57, 48, 48>>),
              StrKey(<<110, 46, 100, 46>>),
              StrKey(<<105, 110, 32, 112, 114, 101, 115, 115>>), StrKey(<<>>)}]

\* processed items with a year each, all of one type
GroupCalls ==
    UNION {{[i \in 1..Len(years) |-> [key |-> BibKeys[i], year |-> years[i]]] :
               years \in SeqsUpTo(YearKeys[t], MaxGroupItems)} : t \in {"int", "str"}}

\* _build_list_page(..., group_by='year'): the groups of the page
BuildGroups ==
    /\ last_call.op = "none"
    /\ last_call' = [op |-> "grouped_items", arg |-> call_args,
                     result |-> grouped_items(call_args, "year")]
    /\ UNCHANGED <<parsers, extension_map, content_dir_vars, content_vars, build_vars>>

InitGroups ==
    /\ ImportedRegistry
    /\ EmptyContentDir
    /\ FreshContent
    /\ theme = "minimal"
    /\ stage = "load"
    /\ pass_log = <<>>
    /\ NoSite
    /\ call_args \in GroupCalls

SpecGroups == InitGroups /\ [][BuildGroups]_vars

-----------------------------------------------------------------------------
(* _process_items on the items of each item type, and the detail pass of   *)
(* _build_blog_post_pages on the posts it returns                          *)

MaxCallItems == 2

\* the items ZenFolio.build hands to _process_items under each item type:
\* to_dict() of the config items, and the loader's dicts
ItemsOfType ==
    [blog_post_item |->
        {[slug |-> "s", excerpt |-> excerpt, image |-> <<>>, content |-> "*em*",
          content_raw |-> "*em*", content_type |-> content_type,
          template_name |-> "blog_post_item", renders |-> TRUE] :
            excerpt \in {"", "*em*"}, content_type \in {"markdown", "notebook"}},
     news_item |->
        {[slug |-> "s", date |-> "2024", content |-> content, highlight |-> FALSE,
          template_name |-> "news_item", renders |-> TRUE] :
            content \in {"", "plain", "*em*"}},
     project_item |->
        {[slug |-> "s", title |-> "t", description |-> description, highlight |-> TRUE,
          template_name |-> "project_item", renders |-> TRUE] :
            description \in {"", "*em*"}},
     talk_item |->
        {[slug |-> "s", title |-> "t", description |-> description,
          template_name |-> "talk_item", renders |-> TRUE] :
            description \in {"", "plain"}},
     service_item |->
        {[slug |-> "s", description |-> description, category |-> category,
          renders |-> TRUE] :
            description \in {"plain", "*em*"}, category \in {"leadership", "conference"}},
     publication_item |->
        {[slug |-> "s", year |-> 2021, highlight |-> highlight, renders |-> TRUE] :
            highlight \in BOOLEAN}]

ItemCalls ==
    UNION {{<<[i \in 1..Len(items) |-> [items[i] EXCEPT !.slug = PostSlugs[i]]], t>> :
               items \in SeqsUpTo(ItemsOfType[t], MaxCallItems)} :
           t \in DOMAIN ItemsOfType}

\* self._process_items(items, item_type, seo_generator)
ProcessItems ==
    /\ last_call.op = "none"
    /\ \E r \in {process_items(theme, parsers, call_args[1], AllOf(call_args[1]),
                               call_args[2])} :
          last_call' = [op |-> "process_items", arg |-> call_args,
                        raised |-> r.raised, result |-> r.processed]
    /\ UNCHANGED <<parsers, extension_map, content_dir_vars, content_vars, build_vars>>

\* the loop of _build_blog_post_pages over the posts _process_items returned
BlogDetailPass ==
    /\ last_call.op = "process_items"
    /\ last_call.arg[2] = "blog_post_item"
    /\ ~last_call.raised
    /\ \E r \in {BlogPagesLoop(theme, parsers, last_call.result, 1)} :
          last_call' = [op |-> "blog_post_pages", arg |-> call_args,
                        raised |-> r.raised, result |-> r.coll]
    /\ UNCHANGED <<parsers, extension_map, content_dir_vars, content_vars, build_vars>>

InitItems ==
    /\ ImportedRegistry
    /\ EmptyContentDir
    /\ FreshContent
    /\ theme = "minimal"
    /\ stage = "load"
    /\ pass_log = <<>>
    /\ NoSite
    /\ call_args \in ItemCalls

NextItems == ProcessItems \/ BlogDetailPass

SpecItems == InitItems /\ [][NextItems]_vars

-----------------------------------------------------------------------------
(* The base URL build_site gives to build().  None is "None". *)

\* the choice with the explicit base URL tested for truth
final_base_url_if_truthy(dev, base_url, site_base_url) ==
    IF dev THEN ""
    ELSE IF base_url \notin {"None", ""} THEN base_url
    ELSE site_base_url

\* build_site: "if dev: ... elif base_url is not None: ... else: ..."
final_base_url(dev, base_url, site_base_url) ==
    IF dev THEN ""
    ELSE IF base_url # "None" THEN base_url
    ELSE site_base_url

\* cli(): the dev argument of the build_site call of each command
DevOf(command, args) ==
    CASE command = "build"  -> args.dev
      [] command = "dev"    -> TRUE
      [] command = "deploy" -> FALSE

\* --base-url, absent or given
BaseUrlArgs == {"None", "", "/repo", "https://user.github.io", "https://example.org/site"}

\* site.base_url of config.py
SiteBaseUrls == {"https://yourdomain.com", "", "/", "https://user.github.io"}

BaseUrlCalls ==
    {<<command, [dev |-> dev, base_url |-> base_url], site_base_url>> :
        command \in {"build", "dev", "deploy"}, dev \in BOOLEAN,
        base_url \in BaseUrlArgs, site_base_url \in SiteBaseUrls}

\* cli(): build_site(args.content_dir, args.theme, args.debug, args.base_url, dev)
BuildSiteBaseUrl ==
    /\ last_call.op = "none"
    /\ last_call' = [op |-> "build_site", arg |-> call_args,
                     dev |-> DevOf(call_args[1], call_args[2]),
                     result |-> final_base_url(DevOf(call_args[1], call_args[2]),
                                               call_args[2].base_url, call_args[3])]
    /\ UNCHANGED <<parsers, extension_map, content_dir_vars, content_vars, build_vars>>

InitBaseUrl ==
    /\ ImportedRegistry
    /\ EmptyContentDir
    /\ FreshContent
    /\ theme = "minimal"
    /\ stage = "load"
    /\ pass_log = <<>>
    /\ NoSite
    /\ call_args \in BaseUrlCalls

SpecBaseUrl == InitBaseUrl /\ [][BuildSiteBaseUrl]_vars

-----------------------------------------------------------------------------
(* ZenFolio._resolve_path and ZenFolio._resolve_item_paths on single items *)

\* external URLs, local paths with and without the static/ prefix, and
\* near misses of both
PathPool ==
    {<<>>,
     <<"http:", "/", "/", "x.org">>,
     <<"https:", "/", "/", "cdn", "/", "static", "/", "a.png">>,
     <<"mailto:", "a@b.org">>,
     <<"tel:", "123">>,
     <<"static", "/", "img.png">>,
     <<"img.png">>,
     <<"static", "/", "static", "/", "x.pdf">>,
     <<"static", "/">>,
     <<"static">>,
     <<"statics", "/", "x.pdf">>,
     <<"img", "/", "static", "/", "x.png">>,
     <<"HTTP:", "/", "/", "x.org">>,
     <<"http:", "/", "x.org">>}

\* an item with two path fields and two fields that are not path fields
PathItems ==
    {[photo |-> photo, paper |-> paper, url |-> url, title |-> <<"static", "/", "t">>] :
        photo \in PathPool,
        paper \in {<<>>, <<"static", "/", "p.pdf">>, <<"https:", "/", "/", "x.org">>},
        url \in {<<"static", "/", "u">>, <<"u">>}}

\* self._resolve_path(item.photo)
ResolvePath ==
    /\ last_call.op = "none"
    /\ last_call' = [op |-> "_resolve_path", arg |-> call_args,
                     raised |-> resolve_path_raises(call_args.photo),
                     result |-> IF resolve_path_raises(call_args.photo) THEN <<>>
                                ELSE resolve_path(call_args.photo)]
    /\ UNCHANGED <<parsers, extension_map, content_dir_vars, content_vars, build_vars>>

\* self._resolve_item_paths(item)
ResolveItemPaths ==
    /\ last_call.op = "none"
    /\ last_call' = [op |-> "_resolve_item_paths", arg |-> call_args, raised |-> FALSE,
                     result |-> resolve_item_paths(call_args)]
    /\ UNCHANGED <<parsers, extension_map, content_dir_vars, content_vars, build_vars>>

InitPaths ==
    /\ ImportedRegistry
    /\ EmptyContentDir
    /\ FreshContent
    /\ theme = "minimal"
    /\ stage = "load"
    /\ pass_log = <<>>
    /\ call_args \in PathItems
    /\ env \in {[GoodEnv EXCEPT !.python = python] : python \in Pythons}
    /\ config = DefaultConfig
    /\ source = [bio |-> ConfigBio, publications |-> <<>>, blog_posts |-> <<>>,
                 pages |-> <<>>]
    /\ written = EmptyDir
    /\ seo_pages = <<>>
    /\ outputs = <<>>
    /\ build_result = "none"
    /\ exc = "None"
    /\ globals = NoGlobals
    /\ built_pages = <<>>

NextPaths == ResolvePath \/ ResolveItemPaths

SpecPaths == InitPaths /\ [][NextPaths]_vars

-----------------------------------------------------------------------------
(* ZenFolio._process_service_items on lists of service items *)

MaxServiceItems == 3

\* to_dict() of ServiceItem: the categories of leadership and of review
\* work, written in lower case, capitalised and with an underscore
ServiceItems ==
    {[description |-> "plain", date |-> date, category |-> category, renders |-> TRUE] :
        date \in {"2023", "2024"},
        category \in {"leadership", "conference", "journal", "Journal", "area_chair"}}

\* self._process_service_items(self.config.author.service, seo_generator)
ProcessServiceItems ==
    /\ last_call.op = "none"
    /\ \E r \in {process_service_items(theme, parsers, call_args)} :
          last_call' = [op |-> "_process_service_items", arg |-> call_args,
                        raised |-> r.raised, result |-> r.items]
    /\ UNCHANGED <<parsers, extension_map, content_dir_vars, content_vars, build_vars>>

InitService ==
    /\ ImportedRegistry
    /\ EmptyContentDir
    /\ FreshContent
    /\ theme \in {"minimal", "tailwind"}
    /\ stage = "load"
    /\ pass_log = <<>>
    /\ NoSite
    /\ call_args \in SeqsUpTo(ServiceItems, MaxServiceItems)

SpecService == InitService /\ [][ProcessServiceItems]_vars

-----------------------------------------------------------------------------
(* build() called again after the content directory has changed *)

\* the content directories of the sites with the bio of the configuration
RebuildSources == {s \in SiteSources : s.bio = ConfigBio}

\* files of the content directory are added, removed or edited between two
\* build() calls of a generator
EditContent ==
    /\ stage = "done"
    /\ build_result = "none"
    /\ Len(outputs) < MaxBuilds
    /\ \E s \in RebuildSources : s # source /\ source' = s
    /\ UNCHANGED <<registry_vars, content_dir_vars, content_vars, theme, stage, pass_log,
                   call_args, env, config, written, seo_pages, outputs, build_result, exc,
                   globals, built_pages>>

InitRebuild ==
    /\ ImportedRegistry
    /\ EmptyContentDir
    /\ FreshContent
    /\ theme \in {"minimal", "tailwind"}
    /\ stage = "init"
    /\ pass_log = <<>>
    /\ call_args = <<>>
    /\ env = GoodEnv
    /\ config = DefaultConfig
    /\ source \in RebuildSources
    /\ written = EmptyDir
    /\ seo_pages = <<>>
    /\ outputs = <<>>
    /\ build_result = "none"
    /\ exc = "None"
    /\ globals = NoGlobals
    /\ built_pages = <<>>

NextRebuild ==
    \/ Construct
    \/ BuildStart
    \/ NextBuild
    \/ EditContent
    \/ BuildAgain
    \/ BuildSiteReturns

SpecRebuild == InitRebuild /\ [][NextRebuild]_vars

-----------------------------------------------------------------------------
(* The output directory of the deploy command: build_site, then            *)
(* create_github_pages_files, then validate_generated_site.  A path is     *)
(* whether it is absolute and the sequence of its parts, Path('.') having  *)
(* none.                                                                   *)

Path(absolute, parts) == [absolute |-> absolute, parts |-> parts]

\* PurePath.parent
parent(path) ==
    IF path.parts = <<>> THEN path
    ELSE Path(path.absolute, SubSeq(path.parts, 1, Len(path.parts) - 1))

\* PurePath.__truediv__: an absolute right-hand side replaces the left
joinpath(path, other) ==
    IF other.absolute THEN other ELSE Path(path.absolute, path.parts \o other.parts)

\* resolve_directory_path(path_str, base_dir)
resolve_directory_path(path_str, base_dir) ==
    IF path_str.absolute THEN path_str ELSE joinpath(base_dir, path_str)

\* ZenFolio.__init__: self.output_dir
output_dir(content_dir, output_path) ==
    resolve_directory_path(output_path, parent(content_dir))

\* get_output_dir(content_dir); Path("_site") when config.py does not load
get_output_dir(content_dir, config_file, output_path) ==
    IF config_file = "ok" THEN resolve_directory_path(output_path, parent(content_dir))
    ELSE Path(FALSE, <<"_site">>)

\* create_github_pages_files and validate_generated_site:
\* "output_dir = content_dir / get_output_dir(content_dir)"
deploy_output_dir(content_dir, config_file, output_path) ==
    joinpath(content_dir, get_output_dir(content_dir, config_file, output_path))

\* --content-dir: the current directory, relative and absolute directories
ContentDirs ==
    {Path(FALSE, <<>>), Path(FALSE, <<"site">>), Path(FALSE, <<"docs">>),
     Path(FALSE, <<"work", "site">>), Path(TRUE, <<"home", "u", "site">>),
     Path(TRUE, <<"srv">>)}

\* config.output_path: "_site", its default, other relative paths and an
\* absolute one
OutputPaths ==
    {Path(FALSE, <<"_site">>), Path(FALSE, <<"public">>), Path(FALSE, <<"build", "out">>),
     Path(FALSE, <<"site">>), Path(TRUE, <<"var", "www">>)}

\* cli(), deploy: build_site(args.content_dir, ...) returned True; the
\* output directory is the only directory the build made
DeployBuilds ==
    /\ last_call.op = "none"
    /\ last_call' = [op |-> "build_site", arg |-> call_args,
                     output_dir |-> output_dir(call_args[1], call_args[2])]
    /\ UNCHANGED <<parsers, extension_map, content_dir_vars, content_vars, build_vars>>

\* cli(), deploy: create_github_pages_files(args.content_dir); touch()
\* raises FileNotFoundError in a directory that does not exist
CreateGithubPagesFiles ==
    /\ last_call.op = "build_site"
    /\ \E dir \in {deploy_output_dir(call_args[1], env.config_file, call_args[2])} :
          last_call' = [op |-> "create_github_pages_files", arg |-> call_args,
                        output_dir |-> last_call.output_dir,
                        deploy_dir |-> dir,
                        raised |-> dir # last_call.output_dir,
                        nojekyll |-> IF dir = last_call.output_dir THEN <<dir>> ELSE <<>>]
    /\ UNCHANGED <<parsers, extension_map, content_dir_vars, content_vars, build_vars>>

\* cli(), deploy: validate_generated_site(args.content_dir, args.debug)
ValidateGeneratedSite ==
    /\ last_call.op = "create_github_pages_files"
    /\ ~last_call.raised
    /\ \E dir \in {deploy_output_dir(call_args[1], env.config_file, call_args[2])} :
          last_call' = [op |-> "validate_generated_site", arg |-> call_args,
                        output_dir |-> last_call.output_dir,
                        deploy_dir |-> dir,
                        raised |-> FALSE,
                        nojekyll |-> last_call.nojekyll,
                        result |-> dir = last_call.output_dir /\ last_call.nojekyll = <<dir>>]
    /\ UNCHANGED <<parsers, extension_map, content_dir_vars, content_vars, build_vars>>

InitDeploy ==
    /\ ImportedRegistry
    /\ EmptyContentDir
    /\ FreshContent
    /\ theme = "minimal"
    /\ stage = "load"
    /\ pass_log = <<>>
    /\ NoSite
    /\ call_args \in ContentDirs \X OutputPaths

NextDeploy ==
    \/ DeployBuilds
    \/ CreateGithubPagesFiles
    \/ ValidateGeneratedSite

SpecDeploy == InitDeploy /\ [][NextDeploy]_vars

-----------------------------------------------------------------------------
(* Claims about the parser registry *)

NoDuplicates(s) == \A i, j \in 1..Len(s) : s[i] = s[j] => i = j

\* sub lists exactly the members of full that are in S, once each, in full's order
ListsInOrder(sub, full, S) ==
    /\ NoDuplicates(sub)
    /\ Range(sub) = {x \in Range(full) : x \in S}
    /\ \A i, j \in 1..Len(sub) : i < j => IndexOf(full, sub[i]) < IndexOf(full, sub[j])

AllExtensions == UNION {supported_extensions(p) : p \in ParserPool}

IndexedUnder(e) == IF e \in DOMAIN extension_map THEN extension_map[e] ELSE <<>>

\* C8: after any sequence of register calls, repeated ones included, every
\* parser is in the registry at most once; the extension index lists, for each
\* extension, exactly the registered parsers that declare it, in registration
\* order and without duplicates; and get_parsers_for_content_type(t) returns
\* exactly the registered parsers whose content_types contain t, in
\* registration order.
C8_RegistryReflectsRegisteredParsers ==
    /\ NoDuplicates(parsers)
    /\ DOMAIN extension_map \subseteq AllExtensions
    /\ \A e \in AllExtensions :
          ListsInOrder(IndexedUnder(e), parsers,
                       {p \in ParserPool : e \in supported_extensions(p)})
    /\ last_call.op = "get_parsers_for_content_type" =>
          ListsInOrder(last_call.result, parsers,
                       {p \in ParserPool : last_call.arg \in content_types(p)})

\* a parser was registered a second time, two parsers share an extension
C8_Witness ==
    /\ last_call.op = "register"
    /\ last_call.result = "registered before"
    /\ Len(parsers) = 4
    /\ Len(IndexedUnder(".ipynb")) = 2

FirstYes(candidates, f) ==
    LET yes == {i \in 1..Len(candidates) : can_parse(candidates[i], f) = "yes"}
    IN IF yes = {} THEN NoParser
       ELSE candidates[CHOOSE i \in yes : \A j \in yes : i <= j]

\* what C9 says get_parser_for_file(f) returns
C9_Expected(f) ==
    LET indexed == FirstYes(IndexedUnder(lower(f.suffix)), f)
    IN IF indexed # NoParser THEN indexed ELSE FirstYes(parsers, f)

WithoutFile(dir, i) ==
    [dir EXCEPT !.files = SelectIdx(dir.files, (1..Len(dir.files)) \ {i}, 1)]

\* C9: get_parser_for_file(path) returns the first parser, among those indexed
\* under the lower-cased suffix and in registration order, whose can_parse is
\* true; failing that the first registered parser whose can_parse is true;
\* and None when no parser matches.  (A can_parse that raises is outside the
\* claim: the call then raises, and only then.)  The pages loader skips a
\* file without a parser and nothing else: the pages are those of the
\* directory without that file.
C9_GetParserForFile ==
    /\ last_call.op = "get_parser_for_file" =>
          /\ last_call.result # Raise => last_call.result = C9_Expected(last_call.arg)
          /\ last_call.result = Raise =>
                \E p \in Range(parsers) : can_parse(p, last_call.arg) = Raise
    /\ load_outcome = "returned" =>
          \A i \in 1..Len(pages_dir.files) :
             C9_Expected(pages_dir.files[i]) = NoParser =>
                /\ \A k \in 1..Len(pages) : pages[k].content.of[1] # pages_dir.files[i].stem
                /\ pages = SafeParsePages(parsers, extension_map,
                                          WithoutFile(pages_dir, i)).pages

\* a lookup found no parser for a file of a loaded directory whose other
\* file was parsed by the parser the fallback scan found
C9_Witness ==
    /\ load_outcome = "returned"
    /\ last_call.op = "get_parser_for_file"
    /\ last_call.result = NoParser
    /\ Len(pages_dir.files) = 2
    /\ Len(pages) = 1
    /\ pages[1].content.by = "SniffParser"
    /\ pages[1].content.of[2] = ".txt"

-----------------------------------------------------------------------------
(* Claims about the blog loader *)

\* all_raw_posts: the parsed entries in merge order
Merged == MergeParsers(get_parsers_for_content_type(parsers, "blog_post"), blog_dir)

FirstWithSlug(i) == \A h \in 1..(i - 1) : Merged[h].slug # Merged[i].slug

\* C4: blog_posts never holds two entries with the same slug, and when
\* several parsed entries carry the same slug exactly one of them is kept,
\* the first in merge order.  Stated for the slugs the claim is surest
\* about: a non-empty slug that at least one valid entry carries.
C4_OneEntryPerSlugFirstWins ==
    load_outcome = "returned" =>
        /\ NoDuplicates([k \in 1..Len(blog_posts) |-> blog_posts[k].slug])
        /\ \A i, j \in 1..Len(Merged) :
              (/\ i < j
               /\ Merged[i].slug = Merged[j].slug
               /\ Truthy(Merged[i].slug)
               /\ FirstWithSlug(i)
               /\ Merged[i].valid \/ Merged[j].valid)
              => \E k \in 1..Len(blog_posts) :
                    /\ blog_posts[k].slug = Merged[i].slug
                    /\ blog_posts[k].content = Merged[i].content

\* a blog file that cannot be parsed, or whose metadata BlogPost rejects
BadEntry(f) == f.body = "badfm" \/ ~f.valid

\* C5: a blog entry that cannot be parsed or that fails validation is left
\* out of blog_posts without an exception reaching the caller, and every
\* other valid entry still appears, in the same relative order: blog_posts
\* is what the directory without that file gives.
C5_BadEntryExcludedOthersKept ==
    load_outcome # "none" =>
        /\ load_outcome = "returned"
        /\ \A i \in 1..Len(blog_dir.files) :
              BadEntry(blog_dir.files[i]) =>
                 /\ \A k \in 1..Len(blog_posts) :
                       blog_posts[k].content.of[1] # blog_dir.files[i].stem
                 /\ blog_posts = SafeParseBlogPosts(parsers, WithoutFile(blog_dir, i))

-----------------------------------------------------------------------------
(* Claims about Content.load, the bibliography and the bio *)

WellFormed(entry) == entry.has_title /\ IntOf(entry.year) # -1

\* C6: a malformed bibliography entry is skipped on its own: every
\* well-formed entry of the same file still appears in publications.
C6_MalformedEntrySkippedAlone ==
    load_outcome # "none" =>
        \A i \in 1..Len(bib_file.entries) :
            WellFormed(bib_file.entries[i]) =>
                \E k \in 1..Len(publications) :
                    publications[k].key = bib_file.entries[i].key

\* C3: Content.load() never raises, and a failure in one of the four classes
\* leaves the other three loaded.
C3_LoadNeverRaises ==
    load_outcome # "none" =>
        /\ load_outcome = "returned"
        /\ bio = SafeParseBioData(parsers, extension_map, index_md, has_author)
        /\ publications = SafeParsePublications(bib_file)
        /\ blog_posts = SafeParseBlogPosts(parsers, blog_dir)

\* index.md is there, parses and validates
BioEntryGood == index_md.body = "text" /\ index_md.valid

\* C7: when index.md is absent or fails to parse or to validate, the bio is
\* the author fields of the site configuration, and the all-empty Bio is
\* returned only when there is no author configuration.
C7_BioFallsBackToConfig ==
    load_outcome # "none" =>
        /\ (~BioEntryGood /\ has_author) => bio = ConfigBio
        /\ bio = EmptyBio => ~has_author

-----------------------------------------------------------------------------
(* Claims about the themes and the item passes of the build *)

\* C1: for the tailwind and the minimal theme render_component never raises:
\* when no template is registered under the name, or the template raises
\* while rendering, it returns an HTML comment that marks the failure.
C1_RenderComponentNeverRaises ==
    last_call.op = "render_component" =>
        /\ ~last_call.result.raised
        /\ (last_call.arg \notin Templates \/ ~last_call.item.renders)
              => last_call.result.html.kind = "comment"

IdOf(d) == IF Has(d, "slug") THEN d.slug ELSE d.key

RecordsOf(e) == IF e.of = "publications" THEN publications ELSE blog_posts

\* the template of the item is registered and renders the item
RendersCleanly(d, item_type) ==
    /\ d.renders
    /\ WithTemplateType(d, item_type).template_type \in Templates

ItemTypeOf(e) == IF e.of = "publications" THEN "publication_item" ELSE "blog_post_item"

\* C2: _process_items never aborts the batch because of one item: the call
\* returns, the items it returns are items of the input in input order, and
\* every item that did not fail itself is among them.
C2_BatchSurvivesItemFailure ==
    \A n \in 1..Len(pass_log) :
        LET e == pass_log[n]
            given_ids == [j \in 1..Len(e.given) |-> IdOf(RecordsOf(e)[e.given[j]])]
            returned_ids == [j \in 1..Len(e.returned) |-> IdOf(e.returned[j])]
        IN /\ e.outcome = "returned"
           /\ NoDuplicates(returned_ids)
           /\ Range(returned_ids) \subseteq Range(given_ids)
           /\ \A i, j \in 1..Len(returned_ids) :
                 i < j => IndexOf(given_ids, returned_ids[i]) < IndexOf(given_ids, returned_ids[j])
           /\ \A j \in 1..Len(e.given) :
                 RendersCleanly(RecordsOf(e)[e.given[j]], ItemTypeOf(e))
                    => given_ids[j] \in Range(returned_ids)

\* the dict pass e returned for record i of its collection
ReturnedFor(e, i) == e.returned[IndexOf(e.given, i)]

\* C10: two passes over the same record give the same field values and the
\* same rendered_html, and both render the markdown fields from the same,
\* untransformed, text: none is rendered from an earlier pass's HTML.
C10_ReprocessingIsIdempotent ==
    \A a, b \in 1..Len(pass_log) :
        (/\ a < b
         /\ pass_log[a].of = pass_log[b].of
         /\ pass_log[a].outcome = "returned"
         /\ pass_log[b].outcome = "returned")
        => \A i \in Range(pass_log[a].given) \cap Range(pass_log[b].given) :
              /\ ReturnedFor(pass_log[a], i) = ReturnedFor(pass_log[b], i)
              /\ {x \in pass_log[a].rendered_from : x[1] = i}
                    = {x \in pass_log[b].rendered_from : x[1] = i}

\* the loader's records pass_log[n] read, as a later step leaves them
RecordsAfter(e) == IF e.of = "publications" THEN publications' ELSE blog_posts'

\* C11: a processed item is a fresh dict: no build step changes a record of
\* content.publications or content.blog_posts, and no later step changes a
\* field of an item that an earlier pass has handed to its page.
C11_ItemsFreshAndNeverMutated ==
    [][/\ publications' = publications
       /\ blog_posts' = blog_posts
       /\ \A n \in 1..Len(pass_log) :
             pass_log[n].outcome = "returned" =>
                \A i \in Range(pass_log[n].given) :
                   RecordsAfter(pass_log[n])[i] = ReturnedFor(pass_log[n], i)]_vars

-----------------------------------------------------------------------------
(* Claims about the SEO metadata *)

\* C19: for page type blog_post with an excerpt the meta description is the
\* excerpt without its HTML tags, cut short, and the returned string, the
\* ellipsis included, is never longer than 155 characters.
C19_MetaDescriptionAtMost155 ==
    (/\ last_call.op = "generate_meta_description"
     /\ last_call.arg[1] = "blog_post"
     /\ last_call.arg[2].excerpt # <<>>)
    => LET clean == StripTags(last_call.arg[2].excerpt)
           text == last_call.result.text
       IN /\ StrLen(text) <= 155
          /\ \/ text = clean
             \/ /\ StrLen(clean) > 155
                /\ text[Len(text)] = Ellipsis
                /\ SubSeq(text, 1, Len(text) - 1)
                      = Slice(clean, StrLen(text) - Ellipsis.len)

-----------------------------------------------------------------------------
(* Claims about the home page *)

Min(a, b) == IF a < b THEN a ELSE b

\* chosen lists highlighted publications before the others, each kind in
\* loaded order and without gaps: a publication is chosen only after every
\* earlier one of its kind, and a non-highlighted one only after all the
\* highlighted ones
HighlightFirst(pubs, chosen) ==
    /\ NoDuplicates(chosen)
    /\ Range(chosen) \subseteq 1..Len(pubs)
    /\ \A i, j \in 1..Len(chosen) :
          i < j => \/ pubs[chosen[i]].highlight /\ ~pubs[chosen[j]].highlight
                   \/ /\ pubs[chosen[i]].highlight = pubs[chosen[j]].highlight
                      /\ chosen[i] < chosen[j]
    /\ \A k \in Range(chosen) : \A m \in 1..Len(pubs) :
          (m \notin Range(chosen)) =>
              /\ ~(pubs[m].highlight = pubs[k].highlight /\ m < k)
              /\ ~(pubs[m].highlight /\ ~pubs[k].highlight)

\* C13 as stated: the home page lists the highlighted publications first, in
\* loaded order, then the non-highlighted ones up to the configured count:
\* min(count, number of publications) entries, and with the count None no
\* bound applies, so every publication is listed.
C13_HighlightFirstUpToCount ==
    last_call.op = "homepage_pubs" =>
        LET pubs == last_call.arg[1]
            pub_count == last_call.arg[2]
            chosen == last_call.result
        IN /\ HighlightFirst(pubs, chosen)
           /\ Len(chosen) = IF pub_count = NoCount THEN Len(pubs)
                            ELSE Min(pub_count, Len(pubs))

\* C13, amended: as above for a numeric count; with the count None the home
\* page lists all the highlighted publications and no other.
C13_HighlightFirstNoneIsHighlightedOnly ==
    last_call.op = "homepage_pubs" =>
        LET pubs == last_call.arg[1]
            pub_count == last_call.arg[2]
            chosen == last_call.result
        IN /\ HighlightFirst(pubs, chosen)
           /\ pub_count # NoCount => Len(chosen) = Min(pub_count, Len(pubs))
           /\ pub_count = NoCount =>
                 Range(chosen) = {i \in 1..Len(pubs) : pubs[i].highlight}

\* 5 publications, 2 of them highlighted, count 3: the two highlighted then
\* the most recent of the others
C13_Witness ==
    /\ last_call.op = "homepage_pubs"
    /\ Len(last_call.arg[1]) = 5
    /\ Cardinality({i \in 1..5 : last_call.arg[1][i].highlight}) = 2
    /\ last_call.arg[1][1].highlight = FALSE
    /\ last_call.arg[2] = 3
    /\ Len(last_call.result) = 3
    /\ last_call.result[3] = 1

-----------------------------------------------------------------------------
(* Claims about the list pages *)

GroupNames(result) == [g \in 1..Len(result.groups) |-> result.groups[g].group_name]

-----------------------------------------------------------------------------
(* Claims about the markdown fields of the items *)

\* what rendering makes of a text: notebook content is HTML already
RenderedForm(text, content_type) ==
    IF content_type = "notebook" THEN text ELSE markdown(text)

\* C12: _process_items leaves the content of a blog_post_item and the
\* description of a service_item exactly as given, and for every other item
\* type replaces each non-empty content, description and excerpt by its
\* rendered form; the body of a post is rendered by the detail pass alone,
\* once, from content_raw.
C12_DeferredAndExemptFields ==
    /\ last_call.op = "process_items" =>
          /\ ~last_call.raised
          /\ Len(last_call.result) = Len(last_call.arg[1])
          /\ \A i \in 1..Len(last_call.result) :
                LET given == last_call.arg[1][i]
                    item == last_call.result[i]
                    item_type == last_call.arg[2]
                IN CASE item_type = "blog_post_item" -> item.content = given.content
                     [] item_type = "service_item" -> item.description = given.description
                     [] OTHER ->
                          \A k \in {"content", "description", "excerpt"} \cap DOMAIN given :
                             item[k] = IF given[k] = "" THEN ""
                                       ELSE RenderedForm(given[k],
                                                Get(given, "content_type", item_type))
    /\ last_call.op = "blog_post_pages" =>
          /\ ~last_call.raised
          /\ \A i \in 1..Len(last_call.result) :
                /\ last_call.arg[1][i].content = last_call.arg[1][i].content_raw
                /\ last_call.result[i].content
                      = RenderedForm(last_call.arg[1][i].content_raw,
                                     last_call.arg[1][i].content_type)

\* a markdown post went through both passes: its body is rendered, and was
\* not before the detail pass
C12_Witness ==
    /\ last_call.op = "blog_post_pages"
    /\ Len(last_call.result) > 0
    /\ last_call.result[1].content_type = "markdown"
    /\ last_call.result[1].content # last_call.result[1].content_raw

-----------------------------------------------------------------------------
(* Claims about the pages of a build *)

SectionOrder ==
    <<"bio", "featured_work", "academic_service", "recent_publications", "recent_news">>

\* the sections the landing page of the written index.html was given
HomePageSections == written[<<"index.html">>].content.shows.sections

\* a section that has no items and no content in the configuration and the
\* loaded records
ResolvesEmpty(id) ==
    CASE id = "bio"                 -> source.bio.bio = ""
      [] id = "featured_work"       -> \A i \in 1..Len(config.projects) :
                                            ~config.projects[i].highlight
      [] id = "academic_service"    -> config.service = <<>>
      [] id = "recent_publications" ->
            HomepagePubs(source.publications, config.homepage_publications_count) = <<>>
      [] id = "recent_news"         -> config.news = <<>>

\* C14: the home page gives its sections in the order bio, featured work,
\* academic service, publications, news; a section is left out exactly when
\* it has no items and no content, whatever the other sections hold; and
\* when all five have content the five titles About Me, Featured Work,
\* Academic Service, Selected Publications, Recent News are there.
C14_SectionsInOrderOmittedWhenEmpty ==
    <<"index.html">> \in DOMAIN written =>
        LET ids == [i \in 1..Len(HomePageSections) |-> HomePageSections[i].id]
            titles == {HomePageSections[i].title : i \in 1..Len(HomePageSections)}
        IN /\ ids = SelectSeq(SectionOrder, LAMBDA id : id \in Range(ids))
           /\ \A id \in Range(SectionOrder) : id \in Range(ids) <=> ~ResolvesEmpty(id)
           /\ (\A id \in Range(SectionOrder) : ~ResolvesEmpty(id)) =>
                 titles = {"About Me", "Featured Work", "Academic Service",
                           "Selected Publications", "Recent News"}

\* the pages in a directory: every file but sitemap.xml
PagePaths(dir) == {p \in DOMAIN dir : dir[p].page_type # "sitemap"}

\* C18: with site.seo.disable_structured_data true no page the build
\* writes receives structured data: not the Person schema on the home page,
\* not BlogPosting on a blog detail page, not the ScholarlyArticle and
\* SoftwareApplication schemas combined on the list pages.
C18_NoStructuredDataWhenDisabled ==
    config.disable_structured_data =>
        \A p \in PagePaths(written) : written[p].structured_data = <<>>

\* the (path, priority, changefreq) triples of sitemap records
Triples(tracked) ==
    {<<tracked[i].path, tracked[i].priority, tracked[i].changefreq>> :
        i \in 1..Len(tracked)}

\* C16: one sitemap record per written page.  Whatever pages a build has
\* written, no two records of seo_pages have the same path and every page
\* the build has written has a record; when a build is done the records
\* are those of the pages written; and two builds of the same site leave
\* the same set of (path, priority, changefreq) triples.
C16_OneSitemapRecordPerWrittenPage ==
    /\ \A i, j \in 1..Len(seo_pages) :
          seo_pages[i].path = seo_pages[j].path => i = j
    /\ stage \notin {"init", "start"} =>
          \A p \in PagePaths(written) : \E i \in 1..Len(seo_pages) : seo_pages[i].path = p
    /\ stage = "done" =>
          {seo_pages[i].path : i \in 1..Len(seo_pages)} = PagePaths(written)
    /\ \A a, b \in 1..Len(outputs) :
          Triples(outputs[a].seo_pages) = Triples(outputs[b].seo_pages)

\* a site with two pages of one file name and a blog post, built a second
\* time by the generator that built it first
C16_Witness ==
    /\ stage = "done"
    /\ Len(outputs) = 2
    /\ build_result = "none"
    /\ Len(source.pages) = 2
    /\ <<"pages", "">> \in DOMAIN written
    /\ source.blog_posts # <<>>
    /\ Len(seo_pages) = Cardinality(PagePaths(written))

\* the blog detail pages assembled from the loaded posts on their own, by a
\* generator that has written no other page
FreshBlogPostPages ==
    BlogPostPages(theme, parsers, config, NoPages, 0,
                  process_items(theme, parsers, source.blog_posts,
                                AllOf(source.blog_posts), "blog_post_item").coll,
                  1).site.written

\* the pages of a directory, by file name
PagesOf(dir) == [p \in PagePaths(dir) |-> dir[p]]

\* C17: page assembly is stateless.  The pages of a finished build are the
\* same whether the generator is new or has built before, and a page is what
\* its content and the configuration make it on their own: nothing an
\* earlier page left in the item dicts changes it.
C17_PageAssemblyStateless ==
    \A k \in 1..Len(outputs) :
        /\ PagesOf(outputs[k].written) = PagesOf(outputs[1].written)
        /\ \A p \in DOMAIN FreshBlogPostPages :
              /\ p \in DOMAIN outputs[k].written
              /\ outputs[k].written[p] = FreshBlogPostPages[p]

\* C20: build_site lets no exception reach its caller and returns a
\* boolean: True only after build() ran to its end, with the output
\* directory made and index.html written, and False when the constructor or
\* build() raised, whatever the exception (a missing or an invalid config.py,
\* an output directory that cannot be written, a template that is missing).
C20_BuildSiteReturnsBoolean ==
    /\ build_result \in {"none", "True", "False"}
    /\ build_result = "True" =>
          stage = "done" /\ exc = "None" /\ <<"index.html">> \in DOMAIN written
    /\ build_result = "False" => stage = "raised" /\ exc # "None"

\* build_site has returned False for an exception none of its named
\* handlers is for
C20_Witness ==
    /\ build_result = "False"
    /\ exc \in {"TemplateNotFound", "SyntaxError"}

-----------------------------------------------------------------------------
(* Claims about build_site's arguments, paths and service items *)

\* C21: build_site builds with the empty base URL whenever dev is set, also
\* when a base URL is given; without dev, with the base URL given, the
\* empty string included; and with site.base_url of the configuration when
\* none is given.
C21_BaseUrlChoice ==
    last_call.op = "build_site" =>
        LET given == last_call.arg[2].base_url
        IN /\ last_call.dev => last_call.result = ""
           /\ ~last_call.dev /\ given # "None" => last_call.result = given
           /\ ~last_call.dev /\ given = "None" => last_call.result = last_call.arg[3]

\* build without --dev and with --base-url "": the empty string is used, not
\* site.base_url
C21_Witness ==
    /\ last_call.op = "build_site"
    /\ last_call.arg[1] = "build"
    /\ ~last_call.dev
    /\ last_call.arg[2].base_url = ""
    /\ last_call.arg[3] = "https://yourdomain.com"
    /\ last_call.result = ""

\* what the specification gives for a path: an external URL and a local path
\* without the prefix as they are, a local path with the prefix without it
C22_Resolved(path) ==
    IF \/ (Len(path) >= 3 /\ SubSeq(path, 1, 3) \in {<<"http:", "/", "/">>, <<"https:", "/", "/">>})
       \/ (Len(path) >= 1 /\ path[1] \in {"mailto:", "tel:"})
    THEN path
    ELSE IF Len(path) >= 2 /\ path[1] = "static" /\ path[2] = "/"
         THEN SubSeq(path, 3, Len(path))
    ELSE path

\* C22: path resolution returns an external URL (http://, https://, mailto:,
\* tel:) unchanged, a local path without its leading 'static/' prefix, and a
\* local path without that prefix unchanged; _resolve_item_paths applies it
\* only to the non-empty string values of the path fields and leaves every
\* other field of the item as it was.
C22_PathResolution ==
    /\ last_call.op = "_resolve_path" =>
          /\ ~last_call.raised
          /\ last_call.result = C22_Resolved(last_call.arg.photo)
    /\ last_call.op = "_resolve_item_paths" =>
          /\ DOMAIN last_call.result = DOMAIN last_call.arg
          /\ \A key \in {"photo", "paper"} :
                last_call.result[key] = C22_Resolved(last_call.arg[key])
          /\ \A key \in {"url", "title"} : last_call.result[key] = last_call.arg[key]

\* the group of a review category as the specification names it
C23_Group(category) ==
    CASE category = "conference" -> "Conference"
      [] category = "journal"    -> "Journal"
      [] category = "Journal"    -> "Journal"
      [] category = "area_chair" -> "Area_Chair"

\* the item a processed item was made from
C23_Given(processed) ==
    [i \in 1..Len(processed) |->
        [description |-> processed[i].description, date |-> processed[i].date,
         category |-> processed[i].category]]

\* C23: _process_service_items partitions its items: the leadership items,
\* and only they, are in leadership_items; every other item is in exactly one
\* review group, the one of its title-cased category ('conference' gives
\* 'Conference'); each list keeps the order of the input and no item is lost
\* or duplicated.
C23_ServiceItemsPartitioned ==
    last_call.op = "_process_service_items" /\ ~last_call.raised =>
        LET items == C23_Given(last_call.arg)
            groups == last_call.result.review_groups
        IN /\ C23_Given(last_call.result.leadership_items)
                = SelectSeq(items, LAMBDA x : x.category = "leadership")
           /\ DOMAIN groups
                = {C23_Group(items[i].category) :
                      i \in {j \in 1..Len(items) : items[j].category # "leadership"}}
           /\ \A c \in DOMAIN groups :
                 C23_Given(groups[c])
                   = SelectSeq(items, LAMBDA x : x.category # "leadership"
                                                 /\ C23_Group(x.category) = c)

\* a leadership item between two review items of the categories 'journal'
\* and 'Journal': one leadership item, one group of two in the input order
C23_Witness ==
    /\ last_call.op = "_process_service_items"
    /\ ~last_call.raised
    /\ Len(last_call.arg) = 3
    /\ last_call.arg[1].category = "journal" /\ last_call.arg[1].date = "2024"
    /\ last_call.arg[2].category = "leadership"
    /\ last_call.arg[3].category = "Journal" /\ last_call.arg[3].date = "2023"
    /\ Len(last_call.result.leadership_items) = 1
    /\ DOMAIN last_call.result.review_groups = {"Journal"}
    /\ Len(last_call.result.review_groups["Journal"]) = 2
    /\ last_call.result.review_groups["Journal"][1].date = "2024"

\* C24: every component fragment of a written page (its item cards, the body
\* of a blog post or of a standalone page) was rendered with url_for and file
\* resolving against the base URL of that page: the build's base URL on the
\* pages of the top level, the first one included, and the nested base URL on
\* blog/<slug>.html and pages/<slug>.html; never the base URL the page
\* written before it left in the theme.
C24_FragmentsUseBaseUrlOfTheirPage ==
    \A p \in PagePaths(written) :
        /\ written[p].base_url = IF Len(p) = 2 THEN build_relative_url(env.base_url)
                                 ELSE env.base_url
        /\ written[p].content_base_url = written[p].base_url

\* C25: after any sequence of build() calls of one generator, the content
\* changing between them or not, the sitemap of the latest build lists
\* exactly the pages that build wrote: it has no entry for a page that only
\* an earlier build wrote, as the output directory has no file of an earlier
\* build.
C25_SitemapListsPagesOfLatestBuild ==
    stage = "done" /\ <<"sitemap.xml">> \in DOMAIN written =>
        {written[<<"sitemap.xml">>].content[i].loc :
            i \in 1..Len(written[<<"sitemap.xml">>].content)} = PagePaths(written)

\* the files of the standalone pages in a directory
C26_PageFiles(dir) == {p \in PagePaths(dir) : Len(p) = 2 /\ p[1] = "pages"}

\* C26: distinct standalone pages of the pages directory are written to
\* distinct files pages/<slug>.html with a non-empty slug, the stem of the
\* file when the frontmatter gives none: no page overwrites another and each
\* has its own sitemap entry.
C26_PagesWrittenToDistinctFiles ==
    stage \in {"sitemap", "done"} =>
        /\ \A p \in C26_PageFiles(written) : p[2] # ""
        /\ Cardinality(C26_PageFiles(written)) = Len(source.pages)
        /\ Cardinality({i \in 1..Len(seo_pages) :
                            seo_pages[i].path \in C26_PageFiles(written)})
             = Len(source.pages)

\* the pages the navigation can name
C27_NavPages == {"publications", "projects", "talks", "news", "blog"}

\* the file of a navigation entry: url_for(key ~ '.html')
C27_File(key) ==
    CASE key = "publications" -> <<"publications.html">>
      [] key = "projects"     -> <<"projects.html">>
      [] key = "talks"        -> <<"talks.html">>
      [] key = "news"         -> <<"news.html">>
      [] key = "blog"         -> <<"blog.html">>

\* C27: after a successful build built_pages has an entry for a page exactly
\* when the HTML file of that page was written: publications always;
\* projects, talks and news exactly when their configured list of items is
\* not empty; blog exactly when blog posts were loaded and blog_folder is
\* set.  No entry names a file the build did not write.
C27_NavigationEntriesAreWrittenPages ==
    stage = "done" =>
        LET entries == {built_pages[i][1] : i \in 1..Len(built_pages)}
        IN /\ entries \subseteq C27_NavPages
           /\ \A key \in C27_NavPages : key \in entries <=> C27_File(key) \in DOMAIN written
           /\ "publications" \in entries
           /\ \A key \in {"projects", "talks", "news"} :
                 key \in entries <=> config[key] # <<>>
           /\ "blog" \in entries <=> source.blog_posts # <<>> /\ config.blog_folder # "None"

\* a finished build of a site with a blog post and blog_folder None: neither
\* a blog entry nor blog.html
C27_Witness ==
    /\ stage = "done"
    /\ source.blog_posts # <<>>
    /\ config.blog_folder = "None"
    /\ built_pages = <<<<"publications", "Publications">>>>
    /\ <<"blog.html">> \notin DOMAIN written
    /\ <<"publications.html">> \in DOMAIN written

\* the list pages and the page type of each
C28_ListPages ==
    [publications |-> <<"publications.html">>, projects |-> <<"projects.html">>,
     talks |-> <<"talks.html">>, news |-> <<"news.html">>, blog |-> <<"blog.html">>]

\* C28: each list page written has the meta description
\* generate_meta_description defines for its own page type (publications,
\* projects, talks, news, blog), not the generic description of the site.
C28_ListPagesHaveOwnMetaDescription ==
    \A page_type \in DOMAIN C28_ListPages :
        C28_ListPages[page_type] \in DOMAIN written =>
            written[C28_ListPages[page_type]].meta_description
                = [kind |-> "sentence", about |-> page_type]

\* a site whose publications and posts all render: no template fails
C29_SiteRenders ==
    /\ \A i \in 1..Len(source.publications) : source.publications[i].renders
    /\ \A i \in 1..Len(source.blog_posts) : source.blog_posts[i].renders

\* C29: a configuration whose news, projects or talks block is None still
\* builds: build() is not ended by an exception, and a finished build has
\* written index.html and publications.html and no list page of the block.
C29_NoneBlockStillBuilds ==
    config.none # {} /\ env = GoodEnv /\ C29_SiteRenders =>
        /\ stage # "raised"
        /\ build_result # "False"
        /\ stage = "done" =>
              /\ <<"index.html">> \in DOMAIN written
              /\ <<"publications.html">> \in DOMAIN written
              /\ \A name \in config.none : ConfigPages[name].filename \notin DOMAIN written

\* C30: for every content directory, the current one, a relative one or an
\* absolute one, build, create_github_pages_files and
\* validate_generated_site resolve the same output directory: after build and
\* deploy the .nojekyll file lies in the built site, and the validation that
\* follows finds the site and that file.
C30_OneOutputDirectory ==
    /\ last_call.op \in {"create_github_pages_files", "validate_generated_site"} =>
          /\ last_call.deploy_dir = last_call.output_dir
          /\ ~last_call.raised
          /\ last_call.nojekyll = <<last_call.output_dir>>
    /\ last_call.op = "validate_generated_site" => last_call.result

=============================================================================
